---- MODULE Spec2Model ----
(***************************************************************************)
(* Model of the meta revision operator of NeuralLog                        *)
(* (src/knowledge/theory/manager/revision/operator/                        *)
(* meta_revision_operator.py): the SLD-Resolution tree built from the      *)
(* higher-order (meta) clauses, the meta program extracted from a node,    *)
(* its first-order instantiations and the revision search over them.       *)
(***************************************************************************)
EXTENDS Integers, Sequences, FiniteSets, TLC

(***************************************************************************)
(* Language values.  A term is a record: k is "V" for a variable, "C" for  *)
(* a constant, "M" for a quoted meta-predicate reference                   *)
(* "$Name[/arity][suffix]" and "S" for any other quoted "name/arity".      *)
(***************************************************************************)
Var(n) == [k |-> "V", n |-> n, a |-> -1, s |-> ""]
Const(n) == [k |-> "C", n |-> n, a |-> -1, s |-> ""]
MetaRef(n, a, s) == [k |-> "M", n |-> n, a |-> a, s |-> s]
Quoted(n, a) == [k |-> "S", n |-> n, a |-> a, s |-> ""]

Pred(n, a) == [name |-> n, arity |-> a]
Lit(p, ts, neg) == [predicate |-> p, terms |-> ts, negated |-> neg]
Atom(p, ts) == Lit(p, ts, FALSE)
HornClause(h, b) == [kind |-> "horn", head |-> h, body |-> b]
AtomClause(a) == [kind |-> "atom", head |-> a, body |-> <<>>]

\* The names that read as variables (they start with an upper case letter).
VarNames == {"A", "P", "Q", "R", "X", "Y", "Z",
             "X1", "X2", "X3", "X4", "X5", "X6", "X7", "X8", "X9"}

GetTermFromString(n) == IF n \in VarNames THEN Var(n) ELSE Const(n)
IsVariable(t) == t.k = "V"
IsVariablePredicate(p) == IsVariable(GetTermFromString(p.name))

VARIABLE_PREDICATE_NAME == "A"
FALSE_LITERAL == Lit(Pred("false", 0), <<>>, FALSE)
TRUE_ATOM == Atom(Pred("true", 0), <<>>)
LEARN_BUILTIN_PREDICATE == "learn"
BUILTIN_PREDICATES == {"learn", "example", "mega_example", "set_parameter",
                       "set_predicate_parameter"}

\* f with key k bound to v.
Put(f, k, v) == [x \in DOMAIN f \cup {k} |-> IF x = k THEN v ELSE f[x]]
EmptyMap == [x \in {} |-> x]
Range(s) == {s[i] : i \in DOMAIN s}

(***************************************************************************)
(* check_if_predicates_unify                                               *)
(***************************************************************************)
CheckIfPredicatesUnify(predicate, goal, unify_constant_predicate) ==
    IF predicate = goal THEN TRUE
    ELSE IF predicate.arity # goal.arity THEN FALSE
    ELSE IF IsVariablePredicate(predicate)
         THEN unify_constant_predicate \/ IsVariablePredicate(goal)
         ELSE FALSE

(***************************************************************************)
(* get_unify_map(atom, goal): the substitution of the variables of atom    *)
(* that makes it equal to goal; ok is FALSE when there is none.            *)
(***************************************************************************)
RECURSIVE UnifyTerms(_, _, _)
UnifyTerms(pattern, goal, m) ==
    IF pattern = <<>> THEN [ok |-> TRUE, map |-> m]
    ELSE LET t == Head(pattern)
             g == Head(goal)
         IN  IF IsVariable(t)
             THEN IF t \in DOMAIN m /\ m[t] # g
                  THEN [ok |-> FALSE, map |-> m]
                  ELSE UnifyTerms(Tail(pattern), Tail(goal), Put(m, t, g))
             ELSE IF t = g
                  THEN UnifyTerms(Tail(pattern), Tail(goal), m)
                  ELSE [ok |-> FALSE, map |-> m]

GetUnifyMap(atom, goal) ==
    IF Len(atom.terms) # Len(goal.terms) THEN [ok |-> FALSE, map |-> EmptyMap]
    ELSE UnifyTerms(atom.terms, goal.terms, EmptyMap)

(***************************************************************************)
(* VariableGenerator(avoid_terms): the names it yields, in order, are the  *)
(* names of FreshVariableNames that are not in avoid_terms.                *)
(***************************************************************************)
FreshVariableNames == <<"X1", "X2", "X3", "X4", "X5", "X6", "X7", "X8", "X9">>

RECURSIVE NthFresh(_, _, _)
NthFresh(avoid, names, k) ==
    IF Var(Head(names)) \in avoid THEN NthFresh(avoid, Tail(names), k)
    ELSE IF k = 1 THEN Head(names)
    ELSE NthFresh(avoid, Tail(names), k - 1)

NextVariable(avoid, drawn) == NthFresh(avoid, FreshVariableNames, drawn + 1)

(***************************************************************************)
(* SLDNode: values, applied_clause (NoClause at the root) and parent (the  *)
(* index of the parent in the tree, 0 at the root).                        *)
(***************************************************************************)
NoClause == [kind |-> "none", head |-> TRUE_ATOM, body |-> <<>>]
SLDNode(values, applied_clause, parent) ==
    [values |-> values, applied_clause |-> applied_clause, parent |-> parent]

\* SLDNode._get_used_variables
GetUsedVariables(values) ==
    UNION {
        (IF IsVariablePredicate(values[i].predicate)
         THEN {GetTermFromString(values[i].predicate.name)} ELSE {})
        \cup {t \in Range(values[i].terms) : IsVariable(t)}
        : i \in DOMAIN values}

\* SLDNode.avoiding_terms, of the node at index n of the tree
RECURSIVE AvoidingTerms(_, _)
AvoidingTerms(tree, n) ==
    GetUsedVariables(tree[n].values)
    \cup (IF tree[n].parent # 0 THEN AvoidingTerms(tree, tree[n].parent) ELSE {})

(***************************************************************************)
(* apply_clause_to_node, the body of its loop for the goal at position i.  *)
(* st holds the substitution (ps on predicates, ts on terms) and the       *)
(* number of names drawn from the variable generator.                      *)
(***************************************************************************)
\* lines 436-447: the predicate of a body literal
RenamePredicate(predicate, st, avoid) ==
    IF predicate \in DOMAIN st.ps
    THEN [st |-> st, predicate |-> st.ps[predicate]]
    ELSE LET predicate_name == GetTermFromString(predicate.name)
             fresh == IsVariable(predicate_name) /\ predicate_name \in avoid
             renamed == IF fresh
                        THEN Pred(NextVariable(avoid, st.drawn), predicate.arity)
                        ELSE predicate
         IN  [st |-> [ps |-> Put(st.ps, predicate, renamed),
                      ts |-> Put(st.ts, predicate_name,
                                 GetTermFromString(renamed.name)),
                      drawn |-> IF fresh THEN st.drawn + 1 ELSE st.drawn],
              predicate |-> renamed]

\* Faulty variant of RenameTerm: a variable in use is not renamed.
RenameTermKept(term, st, avoid) ==
    IF term \in DOMAIN st.ts
    THEN [st |-> st, term |-> st.ts[term]]
    ELSE [st |-> [st EXCEPT !.ts = Put(@, term, term)], term |-> term]

\* lines 451-459: one term of a body literal
RenameTerm(term, st, avoid) ==
    IF term \in DOMAIN st.ts
    THEN [st |-> st, term |-> st.ts[term]]
    ELSE LET fresh == IsVariable(term) /\ term \in avoid
             renamed == IF fresh THEN Var(NextVariable(avoid, st.drawn))
                        ELSE term
         IN  [st |-> [ps |-> st.ps,
                      ts |-> Put(st.ts, term, renamed),
                      drawn |-> IF fresh THEN st.drawn + 1 ELSE st.drawn],
              term |-> renamed]

RECURSIVE RenameTerms(_, _, _, _)
RenameTerms(terms, st, avoid, done) ==
    IF terms = <<>> THEN [st |-> st, terms |-> done]
    ELSE LET r == RenameTerm(Head(terms), st, avoid)
         IN  RenameTerms(Tail(terms), r.st, avoid, Append(done, r.term))

\* lines 433-463
RECURSIVE RenameBody(_, _, _, _)
RenameBody(body, st, avoid, done) ==
    IF body = <<>> THEN [st |-> st, body |-> done]
    ELSE LET literal == Head(body)
             p == RenamePredicate(literal.predicate, st, avoid)
             t == RenameTerms(literal.terms, p.st, avoid, <<>>)
         IN  RenameBody(Tail(body), t.st, avoid,
                        Append(done, Lit(p.predicate, t.terms, literal.negated)))

\* Faulty variant of NewValues: the body goes after the remaining goals.
NewValuesAppended(values, renamed_body, i) ==
    SubSeq(values, 1, i - 1) \o SubSeq(values, i + 1, Len(values))
    \o renamed_body

\* lines 471-472: node.values[:i] + tuple(renamed_body) + node.values[i + 1:]
NewValues(values, renamed_body, i) ==
    SubSeq(values, 1, i - 1) \o renamed_body
    \o SubSeq(values, i + 1, Len(values))

\* lines 418-474; ok is FALSE when the goal at position i is skipped
ApplyClauseToGoal(values, avoid, clause, i, unify_constant_predicate) ==
    LET goal == values[i]
        head == Atom(goal.predicate, clause.head.terms)
        unified == GetUnifyMap(head, goal)
        st0 == [ps |-> Put(EmptyMap, clause.head.predicate, goal.predicate),
                ts |-> Put(unified.map,
                           GetTermFromString(clause.head.predicate.name),
                           GetTermFromString(goal.predicate.name)),
                drawn |-> 0]
        renamed == RenameBody(clause.body, st0, avoid, <<>>)
        renamed_head == Atom(goal.predicate,
                             [j \in DOMAIN head.terms |-> renamed.st.ts[head.terms[j]]])
    IN  IF ~CheckIfPredicatesUnify(clause.head.predicate, goal.predicate,
                                   unify_constant_predicate)
        THEN [ok |-> FALSE]
        ELSE IF ~unified.ok THEN [ok |-> FALSE]
        ELSE [ok |-> TRUE,
              values |-> NewValues(values, renamed.body, i),
              applied_clause |-> HornClause(renamed_head, renamed.body)]

(***************************************************************************)
(* extract_meta_program: the clauses applied from the root down to node n. *)
(***************************************************************************)
\* Faulty variant of ExtractFrom: append instead of appendleft.
RECURSIVE ExtractFromAppending(_, _, _)
ExtractFromAppending(tree, n, clauses) ==
    IF n # 0 /\ tree[n].applied_clause # NoClause
    THEN ExtractFromAppending(tree, tree[n].parent,
                              Append(clauses, tree[n].applied_clause))
    ELSE clauses

RECURSIVE ExtractFrom(_, _, _)
ExtractFrom(tree, n, clauses) ==
    IF n # 0 /\ tree[n].applied_clause # NoClause
    THEN ExtractFrom(tree, tree[n].parent,
                     <<tree[n].applied_clause>> \o clauses)
    ELSE clauses

ExtractMetaProgram(tree, n) == ExtractFrom(tree, n, <<>>)

(***************************************************************************)
(* MetaProgram.  An OrderedSet is a sequence without repetition; a set of  *)
(* Python is a set, iterated in the order SetToSeq gives it.               *)
(***************************************************************************)
OrderedAdd(s, x) == IF x \in Range(s) THEN s ELSE Append(s, x)

RECURSIVE SetToSeq(_)
SetToSeq(S) ==
    IF S = {} THEN <<>>
    ELSE LET x == CHOOSE y \in S : TRUE IN <<x>> \o SetToSeq(S \ {x})

\* get_predicate_from_string(term.get_name()): "Name" has arity -1
GetPredicateFromTerm(t) == Pred(t.n, t.a)

NoTrainable == [preds |-> {}, names |-> {}]

\* lines 260-276: the literals of the body of one clause
RECURSIVE ScanBody(_, _)
ScanBody(literals, acc) ==
    IF literals = <<>> THEN acc
    ELSE LET literal == Head(literals)
             predicate == literal.predicate
             learned == GetPredicateFromTerm(literal.terms[1])
             next ==
                 IF predicate.name \in BUILTIN_PREDICATES
                 THEN [acc EXCEPT
                        !.builtin_facts = OrderedAdd(@, AtomClause(literal)),
                        !.trainable =
                            IF predicate.name # LEARN_BUILTIN_PREDICATE THEN @
                            ELSE IF learned.arity < 0
                            THEN [@ EXCEPT !.names = @ \cup {learned.name}]
                            ELSE [@ EXCEPT !.preds = @ \cup {learned}]]
                 ELSE [acc EXCEPT
                        !.body = Append(@, literal),
                        !.body_variable_predicates =
                            IF IsVariablePredicate(predicate)
                            THEN @ \cup {predicate} ELSE @]
         IN  ScanBody(Tail(literals), next)

\* Faulty variant of FinishBodyPredicates: the head predicates stay.
FinishBodyPredicatesKept(body_predicates, head_predicates) == body_predicates

\* line 287
FinishBodyPredicates(body_predicates, head_predicates) ==
    body_predicates \ head_predicates

\* Faulty variant of HeadCandidates: the body of the clause is not looked at.
HeadCandidatesAll(predicate, body_variable_predicates) ==
    IF IsVariablePredicate(predicate) THEN {predicate} ELSE {}

\* Faulty variant of HeadCandidates: no head predicate is collected.
HeadCandidatesNone(predicate, body_variable_predicates) == {}

\* lines 278-283: the head of one clause
HeadCandidates(predicate, body_variable_predicates) ==
    IF IsVariablePredicate(predicate) /\ predicate \notin body_variable_predicates
    THEN {predicate} ELSE {}

\* lines 257-285
RECURSIVE ScanClauses(_, _)
ScanClauses(meta_clauses, mp) ==
    IF meta_clauses = <<>> THEN mp
    ELSE LET clause == Head(meta_clauses)
             scanned == ScanBody(clause.body,
                                 [builtin_facts |-> mp.builtin_facts,
                                  trainable |-> mp.trainable_predicate,
                                  body |-> <<>>,
                                  body_variable_predicates |-> {}])
         IN  ScanClauses(Tail(meta_clauses),
                 [head_predicates |-> mp.head_predicates \cup
                      HeadCandidates(clause.head.predicate,
                                     scanned.body_variable_predicates),
                  body_predicates |-> mp.body_predicates \cup
                      scanned.body_variable_predicates,
                  trainable_predicate |-> scanned.trainable,
                  builtin_facts |-> scanned.builtin_facts,
                  clauses |-> OrderedAdd(mp.clauses,
                                         HornClause(clause.head, scanned.body))])

\* MetaProgram.__init__ and _create_meta_program
MetaProgram(meta_clauses, trainable_predicates) ==
    LET mp == ScanClauses(meta_clauses,
                  [head_predicates |-> {}, body_predicates |-> {},
                   trainable_predicate |-> trainable_predicates,
                   builtin_facts |-> <<>>, clauses |-> <<>>])
    IN  [mp EXCEPT !.body_predicates =
                       FinishBodyPredicates(@, mp.head_predicates)]

(***************************************************************************)
(* replace_variable_terms and MetaProgram.apply_substitution.  A           *)
(* substitution maps predicates to names; variables and arities map the    *)
(* variable named by a key to the name and to the arity of the key.        *)
(***************************************************************************)
SubstitutionVariables(substitution) ==
    LET keys == {p \in DOMAIN substitution : IsVariablePredicate(p)}
        KeyOf(v) == CHOOSE p \in keys : Var(p.name) = v
    IN  [v \in {Var(p.name) : p \in keys} |->
            [name |-> substitution[KeyOf(v)], arity |-> KeyOf(v).arity]]

\* lines 166-201
ReplaceVariableTerm(term, variables) ==
    IF term.k = "M" /\ term.n \in VarNames
    THEN MetaRef(variables[Var(term.n)].name,
                 IF term.a < 0 THEN variables[Var(term.n)].arity ELSE term.a,
                 term.s)
    ELSE IF IsVariable(term) /\ term \in DOMAIN variables
    THEN Quoted(variables[term].name, variables[term].arity)
    ELSE term

ReplaceVariableTerms(terms, variables) ==
    [i \in DOMAIN terms |-> ReplaceVariableTerm(terms[i], variables)]

\* Faulty variant of FilterTerms: the filter is inverted.
RECURSIVE FilterTermsInverted(_, _)
FilterTermsInverted(terms, variables) ==
    IF terms = <<>> THEN <<>>
    ELSE (IF Head(terms) \in DOMAIN variables THEN <<Head(terms)>> ELSE <<>>)
         \o FilterTermsInverted(Tail(terms), variables)

\* filter(lambda x: x not in variables, terms)
RECURSIVE FilterTerms(_, _)
FilterTerms(terms, variables) ==
    IF terms = <<>> THEN <<>>
    ELSE (IF Head(terms) \in DOMAIN variables THEN <<>> ELSE <<Head(terms)>>)
         \o FilterTerms(Tail(terms), variables)

\* Atom(new_predicate, *new_terms): a name takes the arity of the terms
SubstitutedAtom(predicate, terms, substitution) ==
    IF predicate \in DOMAIN substitution
    THEN Atom(Pred(substitution[predicate], Len(terms)), terms)
    ELSE Atom(predicate, terms)

\* lines 324-325
IsFilteredAtom(atom) == atom = TRUE_ATOM

\* lines 316-326
RECURSIVE SubstituteBody(_, _, _)
SubstituteBody(body, substitution, variables) ==
    IF body = <<>> THEN <<>>
    ELSE LET literal == Head(body)
             new_terms == ReplaceVariableTerms(
                              FilterTerms(literal.terms, variables), variables)
             atom == SubstitutedAtom(literal.predicate, new_terms, substitution)
         IN  (IF IsFilteredAtom(atom) THEN <<>>
              ELSE <<Lit(atom.predicate, atom.terms, literal.negated)>>)
             \o SubstituteBody(Tail(body), substitution, variables)

\* lines 309-328
SubstituteClause(clause, substitution, variables) ==
    HornClause(
        SubstitutedAtom(clause.head.predicate,
                        FilterTerms(clause.head.terms, variables), substitution),
        SubstituteBody(clause.body, substitution, variables))

\* lines 330-337
SubstituteFact(clause, substitution, variables) ==
    AtomClause(SubstitutedAtom(clause.head.predicate,
                   ReplaceVariableTerms(clause.head.terms, variables),
                   substitution))

RECURSIVE OrderedAddAll(_, _)
OrderedAddAll(s, xs) ==
    IF xs = <<>> THEN s ELSE OrderedAddAll(OrderedAdd(s, Head(xs)), Tail(xs))

ApplySubstitution(mp, substitution) ==
    LET variables == SubstitutionVariables(substitution)
    IN  OrderedAddAll(
            OrderedAddAll(<<>>,
                [i \in DOMAIN mp.clauses |->
                    SubstituteClause(mp.clauses[i], substitution, variables)]),
            [i \in DOMAIN mp.builtin_facts |->
                SubstituteFact(mp.builtin_facts[i], substitution, variables)])

(***************************************************************************)
(* PredicateGenerator and PermutationGenerator, used by                    *)
(* first_order_programs.                                                   *)
(***************************************************************************)
FreshPredicateNames == <<"f1", "f2", "f3", "f4", "f5", "f6", "f7", "f8", "f9">>

RECURSIVE NthFreshPredicate(_, _, _)
NthFreshPredicate(avoid, names, k) ==
    IF Head(names) \in avoid THEN NthFreshPredicate(avoid, Tail(names), k)
    ELSE IF k = 1 THEN Head(names)
    ELSE NthFreshPredicate(avoid, Tail(names), k - 1)

\* next(predicate_generator), after `drawn` names were drawn from it
NextPredicate(avoid, drawn) ==
    NthFreshPredicate(avoid, FreshPredicateNames, drawn + 1)

RECURSIVE Product(_)
Product(lists) ==
    IF lists = <<>> THEN 1 ELSE Len(Head(lists)) * Product(Tail(lists))

\* the values of the first i terms in the k-th permutation (k from 0); the
\* last term varies fastest
RECURSIVE Pick(_, _, _)
Pick(permutation_terms, i, k) ==
    IF i = 0 THEN <<>>
    ELSE LET values == permutation_terms[i]
         IN  Append(Pick(permutation_terms, i - 1, k \div Len(values)),
                    values[(k % Len(values)) + 1])

\* PermutationGenerator(variable_terms, permutation_terms): its k-th item
NthPermutation(variable_terms, permutation_terms, k) ==
    LET values == Pick(permutation_terms, Len(variable_terms), k)
    IN  [p \in Range(variable_terms) |->
            values[CHOOSE i \in DOMAIN variable_terms : variable_terms[i] = p]]

(***************************************************************************)
(* MetaProgram.first_order_programs, lines 353-375: the terms to bind and  *)
(* the values each of them may take.                                       *)
(***************************************************************************)
\* Faulty variant of IsTrainable: every body predicate may be invented.
IsTrainableAlways(mp, predicate) == TRUE

IsTrainable(mp, predicate) ==
    \/ predicate \in mp.trainable_predicate.preds
    \/ predicate.name \in mp.trainable_predicate.names

\* Faulty variant of MatchingNames: it stops at the first match.
RECURSIVE MatchingNamesFirst(_, _)
MatchingNamesFirst(predicate, logic_preds) ==
    IF logic_preds = <<>> THEN <<>>
    ELSE IF predicate.arity = Head(logic_preds).arity
    THEN <<Head(logic_preds).name>>
    ELSE MatchingNamesFirst(predicate, Tail(logic_preds))

\* lines 371-373
RECURSIVE MatchingNames(_, _)
MatchingNames(predicate, logic_preds) ==
    IF logic_preds = <<>> THEN <<>>
    ELSE (IF predicate.arity = Head(logic_preds).arity
          THEN <<Head(logic_preds).name>> ELSE <<>>)
         \o MatchingNames(predicate, Tail(logic_preds))

\* lines 365-375, for one body predicate
BodyPermutations(mp, predicate, logic_preds, fixed_terms, avoid, drawn) ==
    OrderedAddAll(
        OrderedAddAll(
            IF IsTrainable(mp, predicate)
            THEN <<NextPredicate(avoid, drawn)>> ELSE <<>>,
            MatchingNames(predicate, logic_preds)),
        fixed_terms)

RECURSIVE BodyTerms(_, _, _, _, _, _)
BodyTerms(mp, predicates, logic_preds, fixed_terms, avoid, drawn) ==
    IF predicates = <<>> THEN <<>>
    ELSE <<BodyPermutations(mp, Head(predicates), logic_preds, fixed_terms,
                            avoid, drawn)>>
         \o BodyTerms(mp, Tail(predicates), logic_preds, fixed_terms, avoid,
                      IF IsTrainable(mp, Head(predicates))
                      THEN drawn + 1 ELSE drawn)

FirstOrderTerms(mp, logic_preds, avoid) ==
    LET heads == SetToSeq(mp.head_predicates)
        bodies == SetToSeq(mp.body_predicates)
        fixed_terms == [i \in DOMAIN heads |-> NextPredicate(avoid, i - 1)]
    IN  [variable_terms |-> heads \o bodies,
         permutation_terms |->
             [i \in DOMAIN heads |-> <<fixed_terms[i]>>]
             \o BodyTerms(mp, bodies, logic_preds, fixed_terms, avoid,
                          Len(heads)),
         next |-> 0]

(***************************************************************************)
(* MetaRevisionOperator.apply_higher_order_program, a generator.  g holds  *)
(* its frame: the tree and the queue, the loop it is in (phase), the       *)
(* levels completed, the nodes left to take from the queue at this level,  *)
(* the node being expanded (cur), the clause (ci) and the goal (gi) to try *)
(* next.  Resume runs it to its next yield: out is the node yielded, 0     *)
(* when the generator is exhausted.                                        *)
(***************************************************************************)
NewGenerator ==
    [tree |-> <<>>, queue |-> <<>>, phase |-> "new", level |-> 0, left |-> 0,
     cur |-> 0, ci |-> 1, gi |-> 1, out |-> 0]

\* Faulty variant of LevelsToRun: one level more is expanded.
LevelsToRunMore(depth) == depth

\* line 1041: for _ in range(self.maximum_depth - 1)
LevelsToRun(depth) == depth - 1

\* Faulty variant of UnifyConstantPredicate: constant goals at every level.
UnifyConstantPredicateAlways(phase) == TRUE

\* line 1038 / line 1046: the flag passed to apply_clause_to_node
UnifyConstantPredicate(phase) == phase = "first"

\* Faulty variant of PopLeft: the node enqueued last is taken.
Pop(queue) ==
    [node |-> queue[Len(queue)], queue |-> SubSeq(queue, 1, Len(queue) - 1)]

\* line 1044: queue.popleft()
PopLeft(queue) == [node |-> Head(queue), queue |-> Tail(queue)]

RECURSIVE Resume(_, _, _, _)
Resume(g, clauses, depth, target) ==
    IF g.phase = "new"
    THEN \* line 1036
         Resume([g EXCEPT !.tree = <<SLDNode(<<target>>, NoClause, 0)>>,
                          !.phase = "first", !.cur = 1, !.ci = 1, !.gi = 1],
                clauses, depth, target)
    ELSE IF g.phase = "exhausted" THEN [g EXCEPT !.out = 0]
    ELSE IF g.phase = "level" /\ g.cur = 0
    THEN \* lines 1041-1044: next level, or next node of this level
         IF g.left = 0
         THEN IF g.level >= LevelsToRun(depth)
              THEN [g EXCEPT !.phase = "exhausted", !.out = 0]
              ELSE Resume([g EXCEPT !.level = @ + 1, !.left = Len(g.queue),
                                    !.cur = IF Len(g.queue) = 0 THEN 0
                                            ELSE PopLeft(g.queue).node,
                                    !.queue = IF Len(g.queue) = 0 THEN <<>>
                                              ELSE PopLeft(g.queue).queue,
                                    !.ci = 1, !.gi = 1],
                          clauses, depth, target)
         ELSE Resume([g EXCEPT !.cur = PopLeft(g.queue).node,
                               !.queue = PopLeft(g.queue).queue,
                               !.ci = 1, !.gi = 1],
                     clauses, depth, target)
    ELSE IF g.ci > Len(clauses)
    THEN \* the clauses are done for this node
         IF g.phase = "first"
         THEN Resume([g EXCEPT !.phase = "level", !.cur = 0, !.left = 0,
                               !.level = 0],
                     clauses, depth, target)
         ELSE Resume([g EXCEPT !.cur = 0, !.left = @ - 1],
                     clauses, depth, target)
    ELSE IF g.gi > Len(g.tree[g.cur].values)
    THEN Resume([g EXCEPT !.ci = @ + 1, !.gi = 1], clauses, depth, target)
    ELSE LET applied == ApplyClauseToGoal(
                            g.tree[g.cur].values, AvoidingTerms(g.tree, g.cur),
                            clauses[g.ci], g.gi,
                            UnifyConstantPredicate(g.phase))
         IN  IF applied.ok
             THEN [g EXCEPT
                     !.tree = Append(@, SLDNode(applied.values,
                                                applied.applied_clause, g.cur)),
                     !.queue = Append(@, Len(g.tree) + 1),
                     !.gi = @ + 1,
                     !.out = Len(g.tree) + 1]
             ELSE Resume([g EXCEPT !.gi = @ + 1], clauses, depth, target)

(***************************************************************************)
(* The theory of the learning system, a sequence of clauses, and the three *)
(* functions that build a candidate theory from a program.  Each returns   *)
(* the theory (ok is FALSE for None), and the revision record it leaves in *)
(* revised_clause and removed_item; raised is TRUE when it raises.         *)
(***************************************************************************)
NoItem == [kind |-> "none"]
\* an exception that leaves perform_operation and reaches its caller
Exception(type) == [kind |-> "exception", type |-> type]
\* a NeuralLogProgram returned as the revised theory
Theory(clauses) == [kind |-> "theory", clauses |-> clauses]

\* NeuralLogProgram.add_clauses
AddClauses(th, clauses) == th \o clauses

\* list.remove: the first occurrence
RECURSIVE RemoveFirst(_, _)
RemoveFirst(s, x) ==
    IF s = <<>> THEN <<>>
    ELSE IF Head(s) = x THEN Tail(s)
    ELSE <<Head(s)>> \o RemoveFirst(Tail(s), x)

\* RevisionOperator.apply_clause_modifiers, with no clause modifier set
ApplyClauseModifiers(clause) == clause

HasFalseLiteral(clause) == FALSE_LITERAL \in Range(clause.body)
HasPlaceholder(clause) ==
    \E i \in DOMAIN clause.body :
        clause.body[i].predicate.name = VARIABLE_PREDICATE_NAME

\* Faulty variant of Rejected: the refusal ends the search.
RejectedAborts(record) ==
    [ok |-> FALSE, raised |-> TRUE, theory |-> <<>>,
     revised_clause |-> record.revised_clause,
     removed_item |-> record.removed_item]

\* return None
Rejected(record) ==
    [ok |-> FALSE, raised |-> FALSE, theory |-> <<>>,
     revised_clause |-> record.revised_clause,
     removed_item |-> record.removed_item]
Raised(record) ==
    [ok |-> FALSE, raised |-> TRUE, theory |-> <<>>,
     revised_clause |-> record.revised_clause,
     removed_item |-> record.removed_item]
Built(th, revised, removed) ==
    [ok |-> TRUE, raised |-> FALSE, theory |-> th,
     revised_clause |-> revised, removed_item |-> removed]

\* Faulty variant of Extend: the derived literals go before the body.
ExtendBefore(body, literals) == literals \o body

\* lines 772 and 821: new_clause.body.extend(first_clause.body)
Extend(body, literals) == body \o literals

\* _build_root_node_theory
BuildRootNodeTheory(program, leaf, th, record) ==
    LET first_clause == program[1]
        new_clause == ApplyClauseModifiers(first_clause)
    IN  IF HasFalseLiteral(first_clause) THEN Rejected(record)
        ELSE Built(AddClauses(AddClauses(th, <<new_clause>>), Tail(program)),
                   new_clause, record.removed_item)

\* _build_false_leaf_theory
BuildFalseLeafTheory(program, leaf, th, record) ==
    LET first_clause == program[1]
        new_clause == ApplyClauseModifiers(
                          HornClause(leaf.parent_element.head,
                                     Extend(leaf.parent_element.body,
                                            first_clause.body)))
    IN  IF HasFalseLiteral(first_clause) THEN Rejected(record)
        ELSE IF HasPlaceholder(first_clause) THEN Rejected(record)
        ELSE Built(AddClauses(AddClauses(th, <<new_clause>>), Tail(program)),
                   new_clause, record.removed_item)

\* Faulty variant of RemovedByFalse: the clause is removed twice.
RemovedByFalseTwice(th, original_clause) ==
    RemoveFirst(RemoveFirst(th, original_clause), original_clause)

\* lines 806-810: the theory when the derived body is false
RemovedByFalse(th, original_clause) == RemoveFirst(th, original_clause)

\* _build_literal_leaf_theory
BuildLiteralLeafTheory(program, leaf, th, record) ==
    LET first_clause == program[1]
        original_clause == leaf.parent_element
        new_clause == ApplyClauseModifiers(
                          HornClause(original_clause.head,
                                     Extend(original_clause.body,
                                            first_clause.body)))
    IN  IF HasPlaceholder(first_clause) THEN Rejected(record)
        ELSE IF HasFalseLiteral(first_clause)
        THEN Built(RemovedByFalse(th, original_clause),
                   original_clause, original_clause)
        ELSE IF first_clause.head.predicate.name # VARIABLE_PREDICATE_NAME
        THEN \* line 817: list.remove() without its argument raises TypeError
             Raised(record)
        ELSE Built(AddClauses(AddClauses(RemoveFirst(th, original_clause),
                                         <<new_clause>>), Tail(program)),
                   new_clause, record.removed_item)

\* perform_operation_on_tree, lines 847-864: the function for the leaf
ExtractTheory(program, leaf, th, record) ==
    IF leaf.kind = "root" THEN BuildRootNodeTheory(program, leaf, th, record)
    ELSE IF leaf.kind = "false_leaf"
    THEN BuildFalseLeafTheory(program, leaf, th, record)
    ELSE BuildLiteralLeafTheory(program, leaf, th, record)

\* theory_metric.compare: positive when evaluation improves on the best
Compare(evaluation, best) == evaluation - best

NoThreshold == [set |-> FALSE, value |-> 0]
Threshold(v) == [set |-> TRUE, value |-> v]

\* Faulty variant of Improves: a tie replaces the best theory.
ImprovesOrTies(improvement) == improvement >= 0

\* line 708
Improves(improvement) == improvement > 0
\* Faulty variant of ExceedsThreshold: any improvement is returned.
ExceedsZero(improvement, threshold) == improvement > 0

\* Faulty variant of ExceedsThreshold: an improvement equal to the threshold
\* is returned.
ReachesThreshold(improvement, threshold) == improvement >= threshold.value

\* lines 712 and 1018
ExceedsThreshold(improvement, threshold) == improvement > threshold.value

(***************************************************************************)
(* network.py: the clauses of a theory the network builds rules from.      *)
(***************************************************************************)
\* Faulty variant of IsClauseFact: the test of the negation is inverted.
IsClauseFactInverted(clause) ==
    IF Len(clause.body) # 1 THEN FALSE
    ELSE IF ~clause.body[1].negated THEN FALSE
    ELSE /\ clause.head.predicate = clause.body[1].predicate
         /\ clause.head.terms = clause.body[1].terms

\* is_clause_fact
IsClauseFact(clause) ==
    IF Len(clause.body) # 1 THEN FALSE
    ELSE IF clause.body[1].negated THEN FALSE
    ELSE /\ clause.head.predicate = clause.body[1].predicate
         /\ clause.head.terms = clause.body[1].terms

\* _build_logic_literal_layer, lines 505-508: the clauses of predicate that
\* are not skipped
RECURSIVE InputClauses(_, _)
InputClauses(clauses, predicate) ==
    IF clauses = <<>> THEN <<>>
    ELSE (IF Head(clauses).kind = "horn"
             /\ Head(clauses).head.predicate = predicate
             /\ ~IsClauseFact(Head(clauses))
          THEN <<Head(clauses)>> ELSE <<>>)
         \o InputClauses(Tail(clauses), predicate)

(***************************************************************************)
(* State.                                                                  *)
(***************************************************************************)
VARIABLES
    meta_clauses,        \* MetaRevisionOperator.meta_clauses
    maximum_depth,       \* MetaRevisionOperator.maximum_depth
    logic_predicates,    \* MetaRevisionOperator._logic_predicates
    avoid_predicates,    \* MetaRevisionOperator._avoid_predicates
    trainable_predicates,\* MetaRevisionOperator._generic_trainable_predicates
    revised_clause,      \* MetaRevisionOperator.revised_clause
    removed_item,        \* MetaRevisionOperator.removed_item
    theory,              \* learning_system.theory
    revision_leaf,       \* tree_theory.get_revision_leaf()
    target_atom,         \* the target atom of the revision
    minimum_threshold,   \* the argument of perform_operation
    current_evaluation,  \* revise_node: the evaluation of the current theory
    sld,                 \* the frame of apply_higher_order_program
    yielded,             \* the nodes apply_higher_order_program has yielded
    meta_program,        \* revise_node: the MetaProgram of the current node
    fop,                 \* the frame of first_order_programs
    programs,            \* the programs first_order_programs has yielded
    best_theory,         \* revise_node: best_theory
    best_evaluation,     \* revise_node: best_evaluation
    evaluated,           \* the theories given to the evaluator, with results
    result,              \* what perform_operation returned
    pc,                  \* where the operation is
    targets,             \* perform_operation_on_examples: the examples
    example,             \* the position of ExampleIterator(targets)
    inferred_examples    \* perform_operation_on_examples: inferred_examples

vars == <<meta_clauses, maximum_depth, logic_predicates, avoid_predicates,
          trainable_predicates, revised_clause, removed_item, theory,
          revision_leaf, target_atom, minimum_threshold, current_evaluation,
          sld, yielded, meta_program, fop, programs, best_theory,
          best_evaluation, evaluated, result, pc,
          targets, example, inferred_examples>>

config == <<meta_clauses, maximum_depth, logic_predicates, avoid_predicates,
            trainable_predicates, theory, revision_leaf, target_atom,
            minimum_threshold>>

\* the variables of perform_operation_on_examples alone
examples_only == <<targets, example, inferred_examples>>

(***************************************************************************)
(* Bounds and the values the inputs are drawn from.                        *)
(***************************************************************************)
MaxDepth == 2
MaxScore == 2
MaxClauses == 2

X == Var("X")
Y == Var("Y")
Z == Var("Z")
P2 == Pred("P", 2)
Q2 == Pred("Q", 2)
R2 == Pred("R", 2)

CopyClause == HornClause(Atom(P2, <<X, Y>>), <<Lit(Q2, <<X, Y>>, FALSE)>>)
ChainClause ==
    HornClause(Atom(P2, <<X, Y>>),
               <<Lit(Q2, <<X, Z>>, FALSE), Lit(R2, <<Z, Y>>, FALSE)>>)
RemoveClause == HornClause(Atom(P2, <<X, Y>>), <<FALSE_LITERAL>>)
LearnClause ==
    HornClause(Atom(P2, <<X, Y>>),
               <<Lit(Q2, <<X, Y>>, FALSE),
                 Lit(Pred("learn", 1), <<Var("Q")>>, FALSE)>>)
RecursiveClause ==
    HornClause(Atom(P2, <<X, Y>>),
               <<Lit(P2, <<X, Z>>, FALSE), Lit(Q2, <<Z, Y>>, FALSE)>>)
TrueClause ==
    HornClause(Atom(P2, <<X, Y>>),
               <<Lit(Pred("true", 0), <<>>, FALSE), Lit(Q2, <<X, Y>>, FALSE)>>)
TermClause ==
    HornClause(Atom(P2, <<X, Y>>),
               <<Lit(Q2, <<X, Y>>, FALSE),
                 Lit(Pred("type", 2), <<Var("Q"), X>>, FALSE)>>)
\* the predicate variable Q stands as a term before it stands as a predicate
TermFirstClause ==
    HornClause(Atom(P2, <<X, Y>>),
               <<Lit(Pred("type", 2), <<Var("Q"), X>>, FALSE),
                 Lit(Q2, <<X, Y>>, FALSE)>>)
\* P(X, Y) :- Q(X, Y), same("$P", "$Q").
QuoteClause ==
    HornClause(Atom(P2, <<X, Y>>),
               <<Lit(Q2, <<X, Y>>, FALSE),
                 Lit(Pred("same", 2),
                     <<MetaRef("P", -1, ""), MetaRef("Q", -1, "")>>, FALSE)>>)
\* P(X, Y) :- Q(X, Z), R(Z, X1): a variable of the clause has a name the
\* variable generator yields
NumberedClause ==
    HornClause(Atom(P2, <<X, Y>>),
               <<Lit(Q2, <<X, Z>>, FALSE), Lit(R2, <<Z, Var("X1")>>, FALSE)>>)
UnaryClause ==
    HornClause(Atom(Pred("P", 1), <<X>>), <<Lit(Pred("Q", 1), <<X>>, TRUE)>>)
ConstantClause ==
    HornClause(Atom(Pred("p", 2), <<X, Y>>),
               <<Lit(Q2, <<X, Z>>, FALSE), Lit(Pred("knows", 2), <<Z, Y>>, FALSE)>>)
HeadOnlyClause ==
    HornClause(Atom(Q2, <<X, Y>>), <<Lit(Pred("likes", 2), <<X, Y>>, FALSE)>>)

Knows == Pred("knows", 2)
Likes == Pred("likes", 2)
Male == Pred("male", 1)

NoLeaf == [kind |-> "none", parent_element |-> NoClause]
NoMetaProgram == MetaProgram(<<>>, NoTrainable)
\* first_order_programs before its first next(): nothing has run (next < 0)
NoFrame == [variable_terms |-> <<>>, permutation_terms |-> <<>>, next |-> -1]

(***************************************************************************)
(* SpecSLD: apply_higher_order_program consumed to exhaustion.             *)
(***************************************************************************)
SLDLibraries ==
    {<<ChainClause>>, <<CopyClause, RemoveClause>>, <<LearnClause, ChainClause>>,
     <<RecursiveClause>>, <<UnaryClause, CopyClause>>, <<TermFirstClause>>,
     <<TermClause>>, <<QuoteClause>>, <<NumberedClause>>}
SLDTargets ==
    {Atom(Pred("p", 2), <<X, Y>>), Atom(Pred("p", 2), <<Const("john"), X>>),
     Atom(Pred("p", 2), <<Const("john"), Const("mary")>>),
     Atom(Pred("A", 2), <<Z, Y>>), Atom(Pred("r", 1), <<X>>)}

InitSLD ==
    /\ meta_clauses \in SLDLibraries
    /\ maximum_depth \in 0..MaxDepth
    /\ target_atom \in SLDTargets
    /\ logic_predicates = <<>>
    /\ avoid_predicates = {}
    /\ trainable_predicates = NoTrainable
    /\ revised_clause = NoItem
    /\ removed_item = NoItem
    /\ theory = <<>>
    /\ revision_leaf = NoLeaf
    /\ minimum_threshold = NoThreshold
    /\ current_evaluation = 0
    /\ sld = NewGenerator
    /\ yielded = <<>>
    /\ meta_program = NoMetaProgram
    /\ fop = NoFrame
    /\ programs = <<>>
    /\ best_theory = NoItem
    /\ best_evaluation = 0
    /\ evaluated = <<>>
    /\ result = NoItem
    /\ pc = "sld"
    /\ targets = <<>>
    /\ example = 0
    /\ inferred_examples = NoItem

\* for node in self.apply_higher_order_program(target_atom): one iteration
ConsumeNode ==
    /\ pc = "sld"
    /\ LET g == Resume(sld, meta_clauses, maximum_depth, target_atom)
       IN  /\ sld' = g
           /\ yielded' = IF g.out = 0 THEN yielded ELSE Append(yielded, g.out)
           /\ pc' = IF g.out = 0 THEN "done" ELSE "sld"
    /\ UNCHANGED <<config, examples_only, revised_clause, removed_item, current_evaluation,
                   meta_program, fop, programs, best_theory, best_evaluation,
                   evaluated, result>>

NextSLD == ConsumeNode
SpecSLD == InitSLD /\ [][NextSLD]_vars
\* line 679, for node in self.apply_higher_order_program(...): the loop asks
\* for the next node until the generator is exhausted.  This is weak
\* fairness of ConsumeNode, with ENABLED <<ConsumeNode>>_vars written as the
\* guard of ConsumeNode, pc = "sld".
SpecSLDFair == SpecSLD /\ (<>[](pc = "sld") => []<><<ConsumeNode>>_vars)

\* the number of parent links from node n up to the root
RECURSIVE Depth(_, _)
Depth(tree, n) == IF tree[n].parent = 0 THEN 0 ELSE 1 + Depth(tree, tree[n].parent)

\* the ancestor of node n that is k parent links above it
RECURSIVE Ancestor(_, _, _)
Ancestor(tree, n, k) == IF k = 0 THEN n ELSE Ancestor(tree, tree[n].parent, k - 1)

(***************************************************************************)
(* Properties of the SLD-Resolution tree (SpecSLD).                        *)
(***************************************************************************)
Tree == sld.tree

\* C1: apply_higher_order_program never yields a node whose distance from
\* the root exceeds the configured maximum depth, for every maximum depth
\* k >= 0, the default 0 included.
C1_DepthBound ==
    \A i \in DOMAIN yielded : Depth(Tree, yielded[i]) <= maximum_depth

\* C2: extract_meta_program of the root is empty, and of a node at depth d
\* it is the d clauses applied on the path from the child of the root down
\* to the node, in the order of application.
C2_ExtractIsPath ==
    \A n \in DOMAIN Tree :
        LET extracted == ExtractMetaProgram(Tree, n)
            d == Depth(Tree, n)
        IN  /\ Len(extracted) = d
            /\ \A i \in 1..d :
                   extracted[i] = Tree[Ancestor(Tree, n, d - i)].applied_clause

\* a node at depth 2 whose two applied clauses differ has been yielded
C2_Witness ==
    \E n \in DOMAIN Tree :
        /\ Depth(Tree, n) = 2
        /\ Tree[n].applied_clause # Tree[Tree[n].parent].applied_clause
        /\ Len(ExtractMetaProgram(Tree, n)) = 2

\* a term of the body of clause that unification of its head with a goal
\* leaves unbound
UnboundTerm(clause, term) ==
    /\ IsVariable(term)
    /\ term \notin Range(clause.head.terms)
    /\ term # GetTermFromString(clause.head.predicate.name)

\* a predicate of the body of clause that unification of its head with a
\* goal leaves unbound
UnboundPredicate(clause, predicate) ==
    /\ IsVariablePredicate(predicate)
    /\ predicate # clause.head.predicate

\* the body of applied, derived from clause, has none of the avoiding terms
\* where clause has an unbound variable
FreshWhereUnbound(clause, applied, avoid) ==
    \A j \in DOMAIN clause.body :
        /\ UnboundPredicate(clause, clause.body[j].predicate) =>
               GetTermFromString(applied.body[j].predicate.name) \notin avoid
        /\ \A k \in DOMAIN clause.body[j].terms :
               UnboundTerm(clause, clause.body[j].terms[k]) =>
                   applied.body[j].terms[k] \notin avoid

\* C8: whenever a meta clause applied to a goal of the parent gives the
\* node, every variable or predicate variable of the body of the meta clause
\* that unification with the goal did not bind stands in the node as a name
\* that is none of the avoiding terms of the ancestors; so when the root
\* goal is ground, no goal of a node derived from it shares a variable with
\* the avoiding terms of the root.
C8_NoCapture ==
    \A n \in DOMAIN Tree :
        Tree[n].parent # 0 =>
            LET parent == Tree[Tree[n].parent]
                avoid == AvoidingTerms(Tree, Tree[n].parent)
            IN  /\ \A ci \in DOMAIN meta_clauses, gi \in DOMAIN parent.values :
                       LET applied == ApplyClauseToGoal(
                               parent.values, avoid, meta_clauses[ci], gi,
                               parent.parent = 0)
                       IN  (applied.ok
                            /\ applied.applied_clause = Tree[n].applied_clause
                            /\ applied.values = Tree[n].values) =>
                               FreshWhereUnbound(meta_clauses[ci],
                                                 Tree[n].applied_clause, avoid)
                /\ GetUsedVariables(Tree[1].values) = {} =>
                       GetUsedVariables(Tree[n].values)
                           \cap AvoidingTerms(Tree, 1) = {}

\* a clause was applied below the root and a variable of its body that was
\* in use among the ancestors was renamed to a fresh name
C8_Witness ==
    \E n \in DOMAIN Tree :
        /\ Depth(Tree, n) = 2
        /\ \E v \in GetUsedVariables(Tree[n].applied_clause.body) :
               /\ v.n \in Range(FreshVariableNames)
               /\ v \notin AvoidingTerms(Tree, Tree[n].parent)
        /\ Z \in AvoidingTerms(Tree, Tree[n].parent)

(***************************************************************************)
(* SpecMeta: a MetaProgram is built from a list of meta clauses and its    *)
(* first_order_programs are consumed to exhaustion.                        *)
(***************************************************************************)
MetaPool ==
    {CopyClause, ChainClause, RemoveClause, LearnClause, RecursiveClause,
     TrueClause, TermClause, UnaryClause, ConstantClause, HeadOnlyClause}

ClauseLists(pool, n) == UNION {[1..k -> pool] : k \in 0..n}

PredicateNames(preds) == {preds[i].name : i \in DOMAIN preds}

InitMeta ==
    /\ meta_clauses \in ClauseLists(MetaPool, MaxClauses)
    /\ maximum_depth = 0
    /\ target_atom = TRUE_ATOM
    /\ logic_predicates \in {<<Knows, Likes>>, <<Male, Likes, Knows>>}
    /\ avoid_predicates \in {PredicateNames(logic_predicates),
                             PredicateNames(logic_predicates) \cup {"f1"}}
    /\ trainable_predicates \in {NoTrainable, [preds |-> {R2}, names |-> {}]}
    /\ revised_clause = NoItem
    /\ removed_item = NoItem
    /\ theory = <<>>
    /\ revision_leaf = NoLeaf
    /\ minimum_threshold = NoThreshold
    /\ current_evaluation = 0
    /\ sld = NewGenerator
    /\ yielded = <<>>
    /\ meta_program = NoMetaProgram
    /\ fop = NoFrame
    /\ programs = <<>>
    /\ best_theory = NoItem
    /\ best_evaluation = 0
    /\ evaluated = <<>>
    /\ result = NoItem
    /\ pc = "meta"
    /\ targets = <<>>
    /\ example = 0
    /\ inferred_examples = NoItem

\* next(first_order_programs): the frame after it, and what it yields
\* (done is TRUE when the generator is exhausted instead)
NextFirstOrderProgram(frame, mp, logic_preds, avoid) ==
    LET started == IF frame.next < 0
                   THEN FirstOrderTerms(mp, logic_preds, avoid) ELSE frame
        substitution == NthPermutation(started.variable_terms,
                                       started.permutation_terms, started.next)
    IN  IF started.next >= Product(started.permutation_terms)
        THEN [done |-> TRUE, frame |-> started]
        ELSE [done |-> FALSE,
              frame |-> [started EXCEPT !.next = @ + 1],
              substitution |-> substitution,
              program |-> ApplySubstitution(mp, substitution)]

\* MetaProgram(meta_clauses, trainable_predicates)
CreateMetaProgram ==
    /\ pc = "meta"
    /\ meta_program' = MetaProgram(meta_clauses, trainable_predicates)
    /\ pc' = "programs"
    /\ UNCHANGED <<config, examples_only, revised_clause, removed_item, current_evaluation,
                   sld, yielded, fop, programs, best_theory, best_evaluation,
                   evaluated, result>>

\* for program in meta_program.first_order_programs(...): one iteration
ConsumeProgram ==
    /\ pc = "programs"
    /\ LET n == NextFirstOrderProgram(fop, meta_program, logic_predicates,
                                      avoid_predicates)
       IN  /\ fop' = n.frame
           /\ programs' = IF n.done THEN programs
                          ELSE Append(programs,
                                      [substitution |-> n.substitution,
                                       program |-> n.program])
           /\ pc' = IF n.done THEN "done" ELSE "programs"
    /\ UNCHANGED <<config, examples_only, revised_clause, removed_item, current_evaluation,
                   sld, yielded, meta_program, best_theory, best_evaluation,
                   evaluated, result>>

NextMeta == CreateMetaProgram \/ ConsumeProgram
SpecMeta == InitMeta /\ [][NextMeta]_vars

(***************************************************************************)
(* Properties of MetaProgram (SpecMeta).                                   *)
(***************************************************************************)
Clauses(program) == {program[i] : i \in DOMAIN program}
HornClauses(program) == SelectSeq(program, LAMBDA c : c.kind = "horn")

\* the variable predicates of the logical (non builtin) body literals
BodyVariablePredicates(clauses) ==
    UNION {{clauses[i].body[j].predicate : j \in
               {k \in DOMAIN clauses[i].body :
                   /\ clauses[i].body[k].predicate.name \notin BUILTIN_PREDICATES
                   /\ IsVariablePredicate(clauses[i].body[k].predicate)}}
           : i \in DOMAIN clauses}

\* C3: the head_predicates and the body_predicates of every constructed
\* MetaProgram are disjoint.
C3_Disjoint ==
    pc # "meta" =>
        meta_program.head_predicates \cap meta_program.body_predicates = {}

\* a predicate collected from a head is a variable predicate of the body of
\* another clause
C3_Witness ==
    /\ pc # "meta"
    /\ meta_program.body_predicates # {}
    /\ \E p \in meta_program.head_predicates :
           p \in BodyVariablePredicates(meta_clauses)

\* C4: no clause of a program yielded by first_order_programs has a head
\* whose predicate name is a variable.
C4_HeadsConcrete ==
    \A i \in DOMAIN programs :
        \A c \in Clauses(programs[i].program) :
            ~IsVariablePredicate(c.head.predicate)

\* a program was yielded for a meta program with a variable head that must
\* be invented and a variable head that also occurs in a body
C4_Witness ==
    /\ programs # <<>>
    /\ meta_program.head_predicates # {}
    /\ \E i \in DOMAIN meta_program.clauses :
           meta_program.clauses[i].head.predicate
               \in meta_program.body_predicates

IdentitySubstitution(mp) ==
    [p \in mp.head_predicates \cup mp.body_predicates |-> p.name]

\* the clauses of the MetaProgram built from the Horn clauses that the
\* identity substitution gives
RoundTrip(mp) ==
    MetaProgram(HornClauses(ApplySubstitution(mp, IdentitySubstitution(mp))),
                NoTrainable).clauses

\* C9 as stated: for every MetaProgram, the round trip through the identity
\* substitution reproduces its clauses.
C9_RoundTrip ==
    pc # "meta" =>
        Clauses(RoundTrip(meta_program)) = Clauses(meta_program.clauses)

\* no true atom in a body, and no term that is a predicate variable of the
\* meta program or a quoted meta-predicate reference
PlainAtom(mp, atom) ==
    /\ Atom(atom.predicate, atom.terms) # TRUE_ATOM
    /\ \A j \in DOMAIN atom.terms :
           /\ atom.terms[j].k # "M"
           /\ atom.terms[j] \notin
                  {Var(p.name) : p \in mp.head_predicates \cup mp.body_predicates}
PlainClauses(mp) ==
    \A i \in DOMAIN mp.clauses :
        /\ \A j \in DOMAIN mp.clauses[i].head.terms :
               mp.clauses[i].head.terms[j] \notin
                  {Var(p.name) : p \in mp.head_predicates \cup mp.body_predicates}
        /\ \A j \in DOMAIN mp.clauses[i].body :
               PlainAtom(mp, mp.clauses[i].body[j])

\* C9 as amended: the round trip reproduces the clauses of every MetaProgram
\* whose clauses have no true atom in a body and no term that is a predicate
\* variable or a quoted meta-predicate reference.
C9_RoundTripPlain ==
    (pc # "meta" /\ PlainClauses(meta_program)) =>
        Clauses(RoundTrip(meta_program)) = Clauses(meta_program.clauses)

C9_Witness ==
    /\ pc # "meta"
    /\ PlainClauses(meta_program)
    /\ Len(meta_program.clauses) = 2
    /\ meta_program.head_predicates # {}
    /\ meta_program.body_predicates # {}
    /\ meta_program.builtin_facts # <<>>

\* the names of the logic predicates a body predicate may be bound to
ExistingNames(v) ==
    {logic_predicates[i].name :
        i \in {k \in DOMAIN logic_predicates :
                  logic_predicates[k].arity = v.arity}}

RECURSIVE ExpectedCount(_)
ExpectedCount(vs) ==
    IF vs = {} THEN 1
    ELSE LET v == CHOOSE w \in vs : TRUE
         IN  ((IF IsTrainable(meta_program, v) THEN 1 ELSE 0)
              + Cardinality(ExistingNames(v))
              + Cardinality(meta_program.head_predicates))
             * ExpectedCount(vs \ {v})

\* C10: once first_order_programs is exhausted, every assignment of
\* existing logic predicates of matching arity to the body predicates is the
\* substitution of a yielded program, and the number of yielded programs is
\* the product of the sizes of the candidate lists.
C10_CrossProduct ==
    pc = "done" =>
        /\ \A f \in [meta_program.body_predicates ->
                        PredicateNames(logic_predicates)] :
               (\A v \in DOMAIN f : f[v] \in ExistingNames(v)) =>
                   \E i \in DOMAIN programs :
                       \A v \in DOMAIN f : programs[i].substitution[v] = f[v]
        /\ Len(programs) = ExpectedCount(meta_program.body_predicates)

\* two body predicates were bound to knows and likes in both orders
C10_Witness ==
    /\ pc = "done"
    /\ {Q2, R2} \subseteq meta_program.body_predicates
    /\ \E i, j \in DOMAIN programs :
           /\ programs[i].substitution[Q2] = "knows"
           /\ programs[i].substitution[R2] = "likes"
           /\ programs[j].substitution[Q2] = "likes"
           /\ programs[j].substitution[R2] = "knows"

(***************************************************************************)
(* Spec: perform_operation_on_tree.  The evaluation of a candidate theory  *)
(* is the choice of the theory evaluator.                                  *)
(***************************************************************************)

RuleTwo ==
    HornClause(Atom(Pred("p", 2), <<X, Y>>),
               <<Lit(Knows, <<X, Z>>, FALSE), Lit(Likes, <<Z, Y>>, FALSE)>>)
RuleOne ==
    HornClause(Atom(Pred("p", 2), <<X, Y>>), <<Lit(Knows, <<X, Y>>, FALSE)>>)
RuleOpen ==
    HornClause(Atom(Pred("p", 2), <<X, Y>>), <<Lit(Knows, <<X, Z>>, FALSE)>>)
\* a clause over f1, a predicate invented by an earlier accepted revision
RuleInvented ==
    HornClause(Atom(Pred("p", 2), <<X, Z>>),
               <<Lit(Pred("f1", 2), <<X, Y>>, FALSE)>>)
RuleOther ==
    HornClause(Atom(Pred("q", 2), <<X, Y>>), <<Lit(Likes, <<X, Y>>, FALSE)>>)

Leaf(kind, parent_element) == [kind |-> kind, parent_element |-> parent_element]

\* a revision point, the target atom built for it and the theory it is in
ReviseScenarios ==
    {[leaf |-> Leaf("root", NoClause),
      target |-> Atom(Pred("p", 2), <<X, Y>>),
      theory |-> <<RuleOther>>],
     [leaf |-> Leaf("false_leaf", RuleOpen),
      target |-> Atom(Pred(VARIABLE_PREDICATE_NAME, 2), <<Z, Y>>),
      theory |-> <<RuleOpen, RuleOther>>],
     [leaf |-> Leaf("literal_leaf", RuleTwo),
      target |-> Atom(Likes, <<Z, Y>>),
      theory |-> <<RuleOther, RuleTwo, RuleTwo>>],
     [leaf |-> Leaf("literal_leaf", RuleOne),
      target |-> Atom(Knows, <<X, Y>>),
      theory |-> <<RuleOne, RuleOther>>],
     [leaf |-> Leaf("false_leaf", RuleInvented),
      target |-> Atom(Pred(VARIABLE_PREDICATE_NAME, 2), <<Y, Z>>),
      theory |-> <<RuleInvented, RuleOther>>]}

Run(library, depth, logic) ==
    [library |-> library, depth |-> depth, logic |-> logic]

\* the meta clauses, the maximum depth and the logic predicates of a run
ReviseRuns ==
    {Run(<<CopyClause>>, 0, <<Knows, Likes>>),
     Run(<<CopyClause>>, 1, <<Knows, Likes>>),
     Run(<<CopyClause>>, 2, <<Knows>>),
     Run(<<RemoveClause, CopyClause>>, 1, <<Knows, Likes>>),
     Run(<<RemoveClause, CopyClause>>, 2, <<Knows>>),
     Run(<<LearnClause>>, 1, <<Knows, Likes>>),
     Run(<<RemoveClause>>, 1, <<Knows>>),
     Run(<<CopyClause, RemoveClause>>, 1, <<Knows, Likes, Pred("p", 2)>>)}

Init ==
    /\ \E run \in ReviseRuns :
           /\ meta_clauses = run.library
           /\ maximum_depth = run.depth
           /\ logic_predicates = run.logic
    /\ \E scenario \in ReviseScenarios :
           /\ revision_leaf = scenario.leaf
           /\ target_atom = scenario.target
           /\ theory = scenario.theory
    /\ avoid_predicates = {"knows", "likes", "p", "q"}
    /\ trainable_predicates = NoTrainable
    /\ minimum_threshold \in {NoThreshold} \cup {Threshold(v) : v \in 0..1}
    /\ revised_clause = NoItem
    /\ removed_item = NoItem
    /\ current_evaluation \in 0..MaxScore
    /\ sld = NewGenerator
    /\ yielded = <<>>
    /\ meta_program = NoMetaProgram
    /\ fop = NoFrame
    /\ programs = <<>>
    /\ best_theory = NoItem
    /\ best_evaluation = 0
    /\ evaluated = <<>>
    /\ result = NoItem
    /\ pc = "start"
    /\ targets = <<>>
    /\ example = 0
    /\ inferred_examples = NoItem

\* perform_operation_on_tree down to the loop of revise_node (lines 843-864, 669-678)
PerformOperationOnTree ==
    /\ pc = "start"
    /\ revised_clause' = NoItem
    /\ removed_item' = NoItem
    /\ sld' = NewGenerator
    /\ best_theory' = NoItem
    /\ best_evaluation' = current_evaluation
    /\ pc' = "nodes"
    /\ UNCHANGED <<config, examples_only, current_evaluation, yielded, meta_program, fop,
                   programs, evaluated, result>>

\* perform_operation_on_tree when infer_examples or compute_metric (lines
\* 671-673) raises: neither revise_node nor its caller handles it
PerformOperationOnTreeRaises ==
    /\ pc = "start"
    /\ revised_clause' = NoItem
    /\ removed_item' = NoItem
    /\ result' = Exception("KnowledgeException")
    /\ pc' = "raised"
    /\ UNCHANGED <<config, examples_only, current_evaluation, sld, yielded, meta_program, fop,
                   programs, best_theory, best_evaluation, evaluated>>

\* revise_node, lines 679-686 and 715: the next node, or the return
ReviseNextNode ==
    /\ pc = "nodes"
    /\ LET g == Resume(sld, meta_clauses, maximum_depth, target_atom)
       IN  /\ sld' = g
           /\ IF g.out = 0
              THEN /\ result' = best_theory
                   /\ pc' = "done"
                   /\ UNCHANGED <<yielded, meta_program, fop, programs>>
              ELSE /\ yielded' = Append(yielded, g.out)
                   /\ meta_program' =
                          MetaProgram(ExtractMetaProgram(g.tree, g.out),
                                      trainable_predicates)
                   /\ fop' = NoFrame
                   /\ programs' = <<>>
                   /\ pc' = "programs"
                   /\ UNCHANGED result
    /\ UNCHANGED <<config, examples_only, revised_clause, removed_item, current_evaluation,
                   best_theory, best_evaluation, evaluated>>

\* line 690: the programs revise_node builds a theory from
IsCandidate(program) == program # <<>> /\ program[1].kind = "horn"

\* learning_system.theory after a candidate was built from it: the builders
\* edit learning_system.theory.copy(), a deep copy
TheoryAfter(th, built) == th

\* Faulty variant of ElementAfter: the clause of the revision point is the
\* clause the builder extended.
ElementEdited(element, built) ==
    IF built.ok THEN built.revised_clause ELSE element

\* lines 771 and 813: the clause of the revision point after a candidate was
\* built: the builders extend copy.deepcopy(revision_leaf.parent.element)
ElementAfter(element, built) == element

\* revise_node, lines 687-713: the next program of the node
ReviseNextProgram ==
    /\ pc = "programs"
    /\ LET n == NextFirstOrderProgram(fop, meta_program, logic_predicates,
                                      avoid_predicates)
           record == [revised_clause |-> revised_clause,
                      removed_item |-> removed_item]
           built == ExtractTheory(n.program, revision_leaf, theory, record)
       IN  /\ fop' = n.frame
           /\ IF n.done
              THEN /\ pc' = "nodes"
                   /\ UNCHANGED <<programs, revised_clause, removed_item,
                                  best_theory, best_evaluation, evaluated,
                                  result>>
              ELSE /\ programs' = Append(programs,
                                         [substitution |-> n.substitution,
                                          program |-> n.program])
                   /\ IF ~IsCandidate(n.program)
                      THEN UNCHANGED <<pc, revised_clause, removed_item,
                                       best_theory, best_evaluation,
                                       evaluated, result>>
                      ELSE /\ revised_clause' = built.revised_clause
                           /\ removed_item' = built.removed_item
                           /\ IF built.raised
                              THEN /\ pc' = "raised"
                                   /\ UNCHANGED <<best_theory, best_evaluation,
                                                  evaluated, result>>
                              ELSE IF ~built.ok
                              THEN UNCHANGED <<pc, best_theory,
                                               best_evaluation, evaluated,
                                               result>>
                              ELSE
                                \/ \* evaluate_theory (line 703) raises: no
                                   \* handler in revise_node or its caller
                                   /\ pc' = "raised"
                                   /\ result' = Exception("KnowledgeException")
                                   /\ UNCHANGED <<best_theory, best_evaluation,
                                                  evaluated>>
                                \/ \E evaluation \in 0..MaxScore :
                                   LET improvement ==
                                           Compare(evaluation, best_evaluation)
                                   IN
                                   /\ evaluated' = Append(evaluated,
                                          [program |-> n.program,
                                           theory |-> built.theory,
                                           evaluation |-> evaluation])
                                   /\ IF ~minimum_threshold.set
                                      THEN /\ best_evaluation' =
                                                  IF Improves(improvement)
                                                  THEN evaluation
                                                  ELSE best_evaluation
                                           /\ best_theory' =
                                                  IF Improves(improvement)
                                                  THEN Theory(built.theory)
                                                  ELSE best_theory
                                           /\ UNCHANGED <<pc, result>>
                                      ELSE IF ExceedsThreshold(
                                                  improvement, minimum_threshold)
                                      THEN /\ result' = Theory(built.theory)
                                           /\ pc' = "done"
                                           /\ UNCHANGED <<best_theory,
                                                          best_evaluation>>
                                      ELSE UNCHANGED <<pc, result, best_theory,
                                                       best_evaluation>>
           /\ theory' = IF n.done \/ ~IsCandidate(n.program) THEN theory
                         ELSE TheoryAfter(theory, built)
           /\ revision_leaf' =
                  IF n.done \/ ~IsCandidate(n.program)
                     \/ revision_leaf.kind = "root"
                  THEN revision_leaf
                  ELSE [revision_leaf EXCEPT
                            !.parent_element = ElementAfter(@, built)]
    /\ UNCHANGED <<examples_only, meta_clauses, maximum_depth, logic_predicates,
                   avoid_predicates, trainable_predicates, target_atom,
                   minimum_threshold, current_evaluation, sld, yielded,
                   meta_program>>

Next ==
    \/ PerformOperationOnTree
    \/ PerformOperationOnTreeRaises
    \/ ReviseNextNode
    \/ ReviseNextProgram
Spec == Init /\ [][Next]_vars

(***************************************************************************)
(* SpecExamples: perform_operation_on_examples, the operation when there   *)
(* is no tree theory.  theory is its local copy of the theory; best_theory *)
(* holds best_program of build_program_from_target, and evaluated the      *)
(* programs the current call of build_program_from_target had evaluated.   *)
(***************************************************************************)
Example(predicate, positive) == [predicate |-> predicate, positive |-> positive]

\* line 883: current_evaluation = None
NoEvaluation == -1

\* a list of clauses returned as the program
Program(clauses) == [kind |-> "program", clauses |-> clauses]

\* learning_system.knowledge_base.logic_predicates
KnowledgeBase == <<Knows>>

\* NeuralLogProgram.logic_predicates of a theory
TheoryPredicates(th) ==
    UNION {{th[i].head.predicate}
           \cup {th[i].body[j].predicate : j \in DOMAIN th[i].body}
           : i \in DOMAIN th}

\* _update_logic_predicates, lines 547-551: self._logic_predicates, a set,
\* in one order of iteration
UpdatedLogicPredicates(th) ==
    OrderedAddAll(KnowledgeBase, SetToSeq(TheoryPredicates(th)))

\* _update_logic_predicates, lines 562-564: self._avoid_predicates
UpdatedAvoidPredicates(th) == PredicateNames(UpdatedLogicPredicates(th))

\* get_variable_atom(example.predicate)
GetVariableAtom(predicate) ==
    Atom(predicate, SubSeq(<<X, Y, Z>>, 1, predicate.arity))

\* inferred_examples, computed against theory th: the examples it covers
Inferred(th, covered) == [kind |-> "inferred", theory |-> th, covered |-> covered]

ExampleTargets ==
    {<<Example(Pred("p", 2), TRUE), Example(Pred("p", 2), TRUE)>>,
     <<Example(Pred("p", 2), FALSE), Example(Pred("q", 2), TRUE)>>}

InitExamples ==
    /\ meta_clauses = <<CopyClause>>
    /\ maximum_depth \in {0, 1}
    /\ logic_predicates = <<>>
    /\ avoid_predicates = {}
    /\ trainable_predicates = NoTrainable
    /\ revised_clause = NoItem
    /\ removed_item = NoItem
    /\ theory = <<RuleOther>>
    /\ revision_leaf = NoLeaf
    /\ target_atom = TRUE_ATOM
    /\ minimum_threshold \in {NoThreshold, Threshold(1)}
    /\ current_evaluation = NoEvaluation
    /\ sld = NewGenerator
    /\ yielded = <<>>
    /\ meta_program = NoMetaProgram
    /\ fop = NoFrame
    /\ programs = <<>>
    /\ best_theory = NoItem
    /\ best_evaluation = 0
    /\ evaluated = <<>>
    /\ result = NoItem
    /\ pc = "on_examples"
    /\ targets \in ExampleTargets
    /\ example = 0
    /\ inferred_examples = NoItem

\* perform_operation_on_examples, lines 879-884
PerformOperationOnExamples ==
    /\ pc = "on_examples"
    /\ inferred_examples' = NoItem
    /\ current_evaluation' = NoEvaluation
    /\ logic_predicates' = UpdatedLogicPredicates(theory)
    /\ trainable_predicates' = NoTrainable
    /\ avoid_predicates' = UpdatedAvoidPredicates(theory)
    /\ example' = 1
    /\ pc' = "examples"
    /\ UNCHANGED <<meta_clauses, maximum_depth, revised_clause, removed_item,
                   theory, revision_leaf, target_atom, minimum_threshold, sld,
                   yielded, meta_program, fop, programs, best_theory,
                   best_evaluation, evaluated, result, targets>>

\* lines 891-898: negative examples and covered positive ones are skipped
Skipped(e, inferred) == ~targets[e].positive \/ e \in inferred.covered

\* lines 885-902: one iteration of the loop over the examples, down to the
\* loop of build_program_from_target (lines 984-987), or the return of
\* line 907 when there is no example left
NextExample ==
    /\ pc = "examples"
    /\ IF example > Len(targets)
       THEN /\ result' = Theory(theory)
            /\ pc' = "returned"
            /\ UNCHANGED <<inferred_examples, current_evaluation, example,
                           target_atom, sld, yielded, meta_program, fop,
                           programs, best_theory, best_evaluation, evaluated>>
       ELSE \/ \* infer_examples or compute_metric raises (lines 887-890):
               \* line 908 wraps the KnowledgeException
               /\ inferred_examples = NoItem
               /\ result' = Exception("TheoryRevisionException")
               /\ pc' = "raised"
               /\ UNCHANGED <<inferred_examples, current_evaluation, example,
                              target_atom, sld, yielded, meta_program, fop,
                              programs, best_theory, best_evaluation,
                              evaluated>>
            \/ \E inferred \in
                   IF inferred_examples # NoItem THEN {inferred_examples}
                   ELSE {Inferred(theory, covered) :
                            covered \in SUBSET DOMAIN targets},
                  evaluation \in
                   IF inferred_examples # NoItem THEN {current_evaluation}
                   ELSE 0..MaxScore :
                   /\ inferred_examples' = inferred
                   /\ current_evaluation' = evaluation
                   /\ UNCHANGED result
                   /\ IF Skipped(example, inferred)
                      THEN /\ example' = example + 1
                           /\ UNCHANGED <<pc, target_atom, sld, yielded,
                                          meta_program, fop, programs,
                                          best_theory, best_evaluation,
                                          evaluated>>
                      ELSE /\ target_atom' =
                                  GetVariableAtom(targets[example].predicate)
                           /\ sld' = NewGenerator
                           /\ yielded' = <<>>
                           /\ meta_program' = NoMetaProgram
                           /\ fop' = NoFrame
                           /\ programs' = <<>>
                           /\ best_theory' = NoItem
                           /\ best_evaluation' = evaluation
                           /\ evaluated' = <<>>
                           /\ pc' = "build_nodes"
                           /\ UNCHANGED example
    /\ UNCHANGED <<meta_clauses, maximum_depth, logic_predicates,
                   avoid_predicates, trainable_predicates, revised_clause,
                   removed_item, theory, revision_leaf, minimum_threshold,
                   targets>>

\* build_program_from_target, lines 987-993 and 1021: the next node
BuildNextNode ==
    /\ pc = "build_nodes"
    /\ LET g == Resume(sld, meta_clauses, maximum_depth, target_atom)
       IN  /\ sld' = g
           /\ IF g.out = 0
              THEN /\ pc' = "append"
                   /\ UNCHANGED <<yielded, meta_program, fop, programs>>
              ELSE /\ yielded' = Append(yielded, g.out)
                   /\ meta_program' =
                          MetaProgram(ExtractMetaProgram(g.tree, g.out),
                                      trainable_predicates)
                   /\ fop' = NoFrame
                   /\ programs' = <<>>
                   /\ pc' = "build_programs"
    /\ UNCHANGED <<config, examples_only, revised_clause, removed_item,
                   current_evaluation, best_theory, best_evaluation,
                   evaluated, result>>

\* lines 1000-1004: current_program
CurrentProgram(program) ==
    OrderedAddAll(<<ApplyClauseModifiers(program[1])>>, Tail(program))

\* build_program_from_target, lines 994-1019: the next program of the node
BuildNextProgram ==
    /\ pc = "build_programs"
    /\ LET n == NextFirstOrderProgram(fop, meta_program, logic_predicates,
                                      avoid_predicates)
       IN  /\ fop' = n.frame
           /\ IF n.done
              THEN /\ pc' = "build_nodes"
                   /\ UNCHANGED <<programs, best_theory, best_evaluation,
                                  evaluated, example>>
              ELSE /\ programs' = Append(programs,
                                         [substitution |-> n.substitution,
                                          program |-> n.program])
                   /\ IF ~IsCandidate(n.program)
                      THEN UNCHANGED <<pc, best_theory, best_evaluation,
                                       evaluated, example>>
                      ELSE
                        \/ \* evaluate_theory_appending_clause raises: lines
                           \* 957-959 catch it, False is returned
                           /\ pc' = "examples"
                           /\ example' = example + 1
                           /\ UNCHANGED <<best_theory, best_evaluation,
                                          evaluated>>
                        \/ \E evaluation \in 0..MaxScore :
                           LET improvement ==
                                   Compare(evaluation, best_evaluation)
                           IN
                           /\ evaluated' = Append(evaluated,
                                  [program |-> n.program,
                                   theory |-> CurrentProgram(n.program),
                                   evaluation |-> evaluation])
                           /\ UNCHANGED example
                           /\ IF ~minimum_threshold.set
                              THEN /\ best_evaluation' =
                                          IF Improves(improvement)
                                          THEN evaluation ELSE best_evaluation
                                   /\ best_theory' =
                                          IF Improves(improvement)
                                          THEN Program(CurrentProgram(n.program))
                                          ELSE best_theory
                                   /\ UNCHANGED pc
                              ELSE IF ExceedsThreshold(improvement,
                                                       minimum_threshold)
                              THEN /\ best_theory' =
                                          Program(CurrentProgram(n.program))
                                   /\ pc' = "append"
                                   /\ UNCHANGED best_evaluation
                              ELSE UNCHANGED <<pc, best_theory,
                                               best_evaluation>>
    /\ UNCHANGED <<config, targets, inferred_examples, revised_clause,
                   removed_item, current_evaluation, sld, yielded,
                   meta_program, result>>

\* lines 952-953 and 957-959: the theory when theory.build_program()
\* raises after theory.add_clauses(program)
TheoryOnError(th, program) == AddClauses(th, program)

\* perform_operation_for_example, lines 949-959, with the program that
\* build_program_from_target returned, and lines 903-906 of the caller
AppendProgram ==
    /\ pc = "append"
    /\ example' = example + 1
    /\ pc' = "examples"
    /\ IF best_theory = NoItem
       THEN \* if program: is false, line 959 returns False
            UNCHANGED <<theory, inferred_examples, current_evaluation,
                        logic_predicates, avoid_predicates,
                        trainable_predicates>>
       ELSE \/ \* True is returned: lines 903-906
               /\ theory' = AddClauses(theory, best_theory.clauses)
               /\ inferred_examples' = NoItem
               /\ current_evaluation' = NoEvaluation
               /\ logic_predicates' = UpdatedLogicPredicates(theory')
               /\ avoid_predicates' = UpdatedAvoidPredicates(theory')
               /\ trainable_predicates' = NoTrainable
            \/ \* theory.build_program() raises: False is returned
               /\ theory' = TheoryOnError(theory, best_theory.clauses)
               /\ UNCHANGED <<inferred_examples, current_evaluation,
                              logic_predicates, avoid_predicates,
                              trainable_predicates>>
    /\ UNCHANGED <<meta_clauses, maximum_depth, revised_clause, removed_item,
                   revision_leaf, target_atom, minimum_threshold, sld, yielded,
                   meta_program, fop, programs, best_theory, best_evaluation,
                   evaluated, result, targets>>

NextExamples ==
    \/ PerformOperationOnExamples
    \/ NextExample
    \/ BuildNextNode
    \/ BuildNextProgram
    \/ AppendProgram
SpecExamples == InitExamples /\ [][NextExamples]_vars

\* both modes of the operator (initialize, lines 533-536): a run is a run of
\* perform_operation_on_tree or one of perform_operation_on_examples
InitOperator == Init \/ InitExamples
NextOperator == Next \/ NextExamples
SpecOperator == InitOperator /\ [][NextOperator]_vars


(***************************************************************************)
(* Properties of the revision search (Spec).                               *)
(***************************************************************************)
Last(seq) == seq[Len(seq)]

\* the improvement of the i-th evaluated candidate on the current theory
Improvement(i) == Compare(evaluated[i].evaluation, current_evaluation)

WithoutRevisedLiteral(clause, literal) ==
    HornClause(clause.head, RemoveFirst(clause.body, literal))

\* the theory with the first occurrence of clause replaced by replacement
RECURSIVE ReplaceFirst(_, _, _)
ReplaceFirst(th, clause, replacement) ==
    IF th = <<>> THEN <<>>
    ELSE IF Head(th) = clause THEN <<replacement>> \o Tail(th)
    ELSE <<Head(th)>> \o ReplaceFirst(Tail(th), clause, replacement)

\* a candidate of a literal leaf whose derived first clause is false
FalseCandidate(i) ==
    /\ revision_leaf.kind = "literal_leaf"
    /\ HasFalseLiteral(evaluated[i].program[1])

\* C6 as stated: for a literal leaf and a derived clause with the false
\* literal in its body, the candidate theory is the theory with only the
\* revised literal removed from its clause (the clause itself only when the
\* literal was its sole body literal), and no clause is added.
C6_LiteralRemoved ==
    \A i \in DOMAIN evaluated :
        FalseCandidate(i) =>
            LET clause == revision_leaf.parent_element
                literal == Lit(target_atom.predicate, target_atom.terms, FALSE)
            IN  evaluated[i].theory =
                    IF Len(clause.body) = 1 THEN RemoveFirst(theory, clause)
                    ELSE ReplaceFirst(theory, clause,
                                      WithoutRevisedLiteral(clause, literal))

\* C6 as amended: for a literal leaf and a derived clause with the false
\* literal and no placeholder predicate in its body, the candidate theory is
\* the theory with the clause of the revision point removed once, whatever
\* the number of its body literals, and no clause is added.
C6_ClauseRemoved ==
    \A i \in DOMAIN evaluated :
        FalseCandidate(i) =>
            LET clause == revision_leaf.parent_element
            IN  /\ evaluated[i].theory = RemoveFirst(theory, clause)
                /\ Len(evaluated[i].theory) = Len(theory) - 1
                /\ removed_item = clause

\* the clause removed had two body literals
C6_Witness ==
    \E i \in DOMAIN evaluated :
        /\ FalseCandidate(i)
        /\ Len(revision_leaf.parent_element.body) = 2
        /\ revision_leaf.parent_element \in Range(evaluated[i].theory)

\* the first of the evaluated candidates with the best evaluation
FirstBest ==
    CHOOSE j \in DOMAIN evaluated :
        /\ \A i \in DOMAIN evaluated :
               Compare(evaluated[i].evaluation, evaluated[j].evaluation) <= 0
        /\ \A i \in 1..(j - 1) :
               Compare(evaluated[j].evaluation, evaluated[i].evaluation) > 0

\* C7: without a minimum threshold, the search returns the first of the
\* evaluated candidates with the best evaluation when that evaluation
\* strictly improves on the evaluation of the current theory, and None when
\* no evaluated candidate does.
C7_FirstBest ==
    (pc = "done" /\ ~minimum_threshold.set) =>
        IF \E i \in DOMAIN evaluated : Improvement(i) > 0
        THEN result = Theory(evaluated[FirstBest].theory)
        ELSE result = NoItem

\* the best evaluation was reached twice, by different theories, and the
\* first of them was returned although a later candidate was evaluated
C7_Witness ==
    /\ pc = "done"
    /\ ~minimum_threshold.set
    /\ \E i, j \in DOMAIN evaluated :
           /\ i < j
           /\ i = FirstBest
           /\ evaluated[i].evaluation = evaluated[j].evaluation
           /\ evaluated[i].theory # evaluated[j].theory
           /\ Improvement(i) > 0
           /\ result = Theory(evaluated[i].theory)

(***************************************************************************)
(* Properties of the candidates that are skipped (Spec).                   *)
(***************************************************************************)
\* a program whose first clause the strategy of the revision point refuses
Invalid(program) ==
    /\ program # <<>>
    /\ program[1].kind = "horn"
    /\ \/ /\ revision_leaf.kind \in {"root", "false_leaf"}
          /\ HasFalseLiteral(program[1])
       \/ /\ revision_leaf.kind \in {"false_leaf", "literal_leaf"}
          /\ HasPlaceholder(program[1])

\* C11: a step that generates a program whose first clause is invalid for
\* the strategy (a false body at the root and at a false leaf, a placeholder
\* predicate A in the body at a false leaf and at a literal leaf) does not
\* evaluate it, keeps the best theory and the result, and leaves the search
\* in its loop over the programs of the node.
C11_InvalidSkipped ==
    [][(/\ pc = "programs"
        /\ Len(programs') = Len(programs) + 1
        /\ Invalid(Last(programs').program))
       => /\ pc' = "programs"
          /\ evaluated' = evaluated
          /\ best_theory' = best_theory
          /\ best_evaluation' = best_evaluation
          /\ result' = result]_vars

\* the first program of the k-th node that was yielded
FirstProgramOf(k) ==
    NextFirstOrderProgram(
        NoFrame,
        MetaProgram(ExtractMetaProgram(sld.tree, yielded[k]),
                    trainable_predicates),
        logic_predicates, avoid_predicates)

\* the first program of an earlier node was invalid, and a program of the
\* current node has been evaluated since
C11_Witness ==
    /\ pc = "programs"
    /\ programs # <<>>
    /\ evaluated # <<>>
    /\ Last(evaluated).program = Last(programs).program
    /\ \E k \in 1..(Len(yielded) - 1) :
           /\ ~FirstProgramOf(k).done
           /\ Invalid(FirstProgramOf(k).program)

(***************************************************************************)
(* Properties of the errors that reach the caller (Spec).                  *)
(***************************************************************************)
\* C12: an error of an external collaborator that ends perform_operation in
\* tree mode reaches the caller as a TheoryRevisionException.
C12_Wrapped ==
    (pc = "raised" /\ result.kind = "exception") =>
        result = Exception("TheoryRevisionException")

(***************************************************************************)
(* Properties of the revision record (Spec).                               *)
(***************************************************************************)
\* the record after perform_operation_on_tree reset it (lines 844-845)
EmptyRecord == [revised_clause |-> NoItem, removed_item |-> NoItem]

\* what building the i-th evaluated candidate alone leaves in the record
RecordOf(i) ==
    LET built == ExtractTheory(evaluated[i].program, revision_leaf, theory,
                               EmptyRecord)
    IN  [revised_clause |-> built.revised_clause,
         removed_item |-> built.removed_item]

\* C13: when perform_operation_on_tree returns a theory, revised_clause and
\* removed_item are those of the candidate that was returned: the clause
\* that was added to build it and the item that was removed to build it.
C13_RecordOfResult ==
    (pc = "done" /\ result # NoItem) =>
        \A i \in DOMAIN evaluated :
            result = Theory(evaluated[i].theory) =>
                /\ revised_clause = RecordOf(i).revised_clause
                /\ removed_item = RecordOf(i).removed_item

(***************************************************************************)
(* Properties of the working theory (Spec).                                *)
(***************************************************************************)
\* the revision point, target atom and theory the operation was called with
CalledWith == CHOOSE scenario \in ReviseScenarios : scenario.target = target_atom

ExistingPredicateNames ==
    {logic_predicates[i].name : i \in DOMAIN logic_predicates}
    \cup UNION {{theory[i].head.predicate.name}
                \cup {theory[i].body[j].predicate.name :
                         j \in DOMAIN theory[i].body} : i \in DOMAIN theory}

\* the names drawn from the predicate generator for the current node: the
\* value of each head predicate and the first value of each trainable body
\* predicate
InventedNames ==
    {fop.permutation_terms[i][1] :
        i \in {k \in DOMAIN fop.variable_terms :
                  \/ fop.variable_terms[k] \in meta_program.head_predicates
                  \/ IsTrainable(meta_program, fop.variable_terms[k])}}

\* C15: in tree mode, no name invented for a program that was enumerated is
\* the name of a predicate of the current theory or of a logic predicate.
C15_NoCollision ==
    programs # <<>> => InventedNames \cap ExistingPredicateNames = {}

(***************************************************************************)
(* Properties of the clauses that degenerate to a fact (Spec).             *)
(***************************************************************************)
\* a clause whose body is a single non-negated literal with the predicate
\* and the terms of its head
Degenerate(clause) ==
    /\ clause.kind = "horn"
    /\ Len(clause.body) = 1
    /\ clause.body[1] = Lit(clause.head.predicate, clause.head.terms, FALSE)

LevelsExpanded == IF maximum_depth > 1 THEN maximum_depth ELSE 1

\* C17: for every target atom, every library of meta clauses, a recursive
\* one included, and every maximum depth, the tree starts from a new root,
\* never grows below the levels the maximum depth allows, and the generator
\* is eventually exhausted and stays so.
C17_Exhausted ==
    /\ sld = NewGenerator
    /\ [](\A n \in DOMAIN Tree : Depth(Tree, n) <= LevelsExpanded)
    /\ <>[](pc = "done" /\ sld.phase = "exhausted")

\* the generator was exhausted for the recursive clause after it had grown
\* the tree down to the maximum depth
C17_Witness ==
    /\ pc = "done"
    /\ sld.phase = "exhausted"
    /\ meta_clauses = <<RecursiveClause>>
    /\ maximum_depth = MaxDepth
    /\ \E n \in DOMAIN Tree : Depth(Tree, n) = MaxDepth
    /\ Len(yielded) = Len(Tree) - 1

(***************************************************************************)
(* apply_clause_to_node: the nodes it yields (SpecSLD).                    *)
(***************************************************************************)
\* the nodes of the tree whose parent is node p, in the order they were added
Children(p) ==
    SelectSeq([k \in DOMAIN Tree |-> k], LAMBDA k : Tree[k].parent = p)

\* the goal unifies with the head of the clause: lines 420-427
Unifies(clause, goal, unify_constant_predicate) ==
    /\ CheckIfPredicatesUnify(clause.head.predicate, goal.predicate,
                              unify_constant_predicate)
    /\ GetUnifyMap(Atom(goal.predicate, clause.head.terms), goal).ok

\* the pairs <<clause, goal position>> of node p that unify, clause by clause
\* and, for each clause, in the order of the goals
UnifyingPositions(p) ==
    LET goals == Len(Tree[p].values)
        pairs == [k \in 1..(Len(meta_clauses) * goals) |->
                     <<((k - 1) \div goals) + 1, ((k - 1) % goals) + 1>>]
    IN  SelectSeq(pairs,
                  LAMBDA pair : Unifies(meta_clauses[pair[1]],
                                        Tree[p].values[pair[2]], p = 1))

\* applied is clause with its names replaced: the head takes the predicate
\* of the goal, the body keeps its literals, their signs, their arities,
\* their constant predicates and their constant terms
IsRenamedClause(applied, clause, goal) ==
    /\ applied.kind = "horn"
    /\ applied.head.predicate = goal.predicate
    /\ Len(applied.head.terms) = Len(clause.head.terms)
    /\ Len(applied.body) = Len(clause.body)
    /\ \A j \in DOMAIN clause.body :
           /\ applied.body[j].negated = clause.body[j].negated
           /\ applied.body[j].predicate.arity = clause.body[j].predicate.arity
           /\ ~IsVariablePredicate(clause.body[j].predicate)
                  => applied.body[j].predicate = clause.body[j].predicate
           /\ Len(applied.body[j].terms) = Len(clause.body[j].terms)
           /\ \A t \in DOMAIN clause.body[j].terms :
                  ~IsVariable(clause.body[j].terms[t])
                      => applied.body[j].terms[t] = clause.body[j].terms[t]

\* node k is what applying the clause to goal i of node p yields
YieldedFor(k, p, clause, i) ==
    LET values == Tree[p].values
        body == Tree[k].applied_clause.body
    IN  /\ Tree[k].parent = p
        /\ IsRenamedClause(Tree[k].applied_clause, clause, values[i])
        /\ Len(Tree[k].values) = Len(values) - 1 + Len(body)
        /\ \A j \in 1..(i - 1) : Tree[k].values[j] = values[j]
        /\ \A j \in DOMAIN body : Tree[k].values[i - 1 + j] = body[j]
        /\ \A j \in (i + 1)..Len(values) :
               Tree[k].values[j - 1 + Len(body)] = values[j]

\* C18: once the generator is exhausted, every node above the last level has
\* exactly one child for each clause and goal position that unifies, in that
\* order, and none for the others; in the child the renamed body stands in
\* the place of the goal, the other goals are unchanged and in their order,
\* the parent is the node and applied_clause is the renamed clause.
C18_OnePerUnifyingGoal ==
    pc = "done" =>
        \A p \in DOMAIN Tree :
            Depth(Tree, p) < LevelsExpanded =>
                /\ Len(Children(p)) = Len(UnifyingPositions(p))
                /\ \A k \in DOMAIN Children(p) :
                       YieldedFor(Children(p)[k], p,
                                  meta_clauses[UnifyingPositions(p)[k][1]],
                                  UnifyingPositions(p)[k][2])

\* a node with two goals was expanded by a clause of two body literals at
\* its first and at its second goal, so that a goal is kept after the body
\* in one child and before it in the other, and a goal of an expanded node
\* did not unify with a clause
C18_Witness ==
    /\ pc = "done"
    /\ \E p \in DOMAIN Tree :
           /\ Depth(Tree, p) < LevelsExpanded
           /\ Len(Tree[p].values) = 2
           /\ \A i \in 1..2 :
                  \E k \in DOMAIN UnifyingPositions(p) :
                      /\ UnifyingPositions(p)[k][2] = i
                      /\ Len(meta_clauses[UnifyingPositions(p)[k][1]].body) = 2
                      /\ Tree[Children(p)[k]].values[IF i = 1 THEN 3 ELSE 1]
                             = Tree[p].values[3 - i]
    /\ \E p \in DOMAIN Tree :
           /\ Depth(Tree, p) < LevelsExpanded
           /\ \E i \in DOMAIN Tree[p].values, c \in DOMAIN meta_clauses :
                  ~Unifies(meta_clauses[c], Tree[p].values[i], p = 1)

(***************************************************************************)
(* apply_clause_to_node: the renaming of one application (SpecSLD).        *)
(***************************************************************************)
\* the name at occurrence o = <<j, t>> of a body: the name of the predicate
\* of literal j when t = 0, its t-th term otherwise
NameAt(body, o) ==
    IF o[2] = 0 THEN GetTermFromString(body[o[1]].predicate.name)
    ELSE body[o[1]].terms[o[2]]

Occurrences(body) ==
    UNION {{<<j, t>> : t \in 0..Len(body[j].terms)} : j \in DOMAIN body}

\* wherever clause has the same variable twice, applied has the same name
ConsistentlyRenamed(clause, applied) ==
    \A o1, o2 \in Occurrences(clause.body) :
        (IsVariable(NameAt(clause.body, o1))
         /\ NameAt(clause.body, o1) = NameAt(clause.body, o2))
            => NameAt(applied.body, o1) = NameAt(applied.body, o2)

\* C19: whenever a meta clause applied to a goal of the parent gives the
\* node, every occurrence of one variable in the body of the meta clause, as
\* the name of a predicate or as a term and in any order, stands as the same
\* name in the applied clause and in the node.
C19_Consistent ==
    \A n \in DOMAIN Tree :
        Tree[n].parent # 0 =>
            LET parent == Tree[Tree[n].parent]
                avoid == AvoidingTerms(Tree, Tree[n].parent)
            IN  \A ci \in DOMAIN meta_clauses, gi \in DOMAIN parent.values :
                    LET applied == ApplyClauseToGoal(
                            parent.values, avoid, meta_clauses[ci], gi,
                            parent.parent = 0)
                    IN  (applied.ok
                         /\ applied.applied_clause = Tree[n].applied_clause
                         /\ applied.values = Tree[n].values) =>
                            /\ ConsistentlyRenamed(meta_clauses[ci],
                                                   Tree[n].applied_clause)
                            /\ \A j \in DOMAIN meta_clauses[ci].body :
                                   Tree[n].values[gi - 1 + j]
                                       = Tree[n].applied_clause.body[j]

(***************************************************************************)
(* apply_clause_to_node: the quoted meta-predicate references (SpecSLD).   *)
(***************************************************************************)
\* the name that the predicate variable called name of clause has in applied
RenamedName(clause, applied, name) ==
    IF name = clause.head.predicate.name THEN applied.head.predicate.name
    ELSE IF \E j \in DOMAIN clause.body : clause.body[j].predicate.name = name
    THEN applied.body[CHOOSE j \in DOMAIN clause.body :
                          clause.body[j].predicate.name = name].predicate.name
    ELSE name

\* every quoted reference of the body of clause names, in applied, what the
\* predicate variable it names has become
QuotesRewritten(clause, applied) ==
    \A j \in DOMAIN clause.body :
        \A t \in DOMAIN clause.body[j].terms :
            clause.body[j].terms[t].k = "M" =>
                /\ applied.body[j].terms[t].k = "M"
                /\ applied.body[j].terms[t].n
                       = RenamedName(clause, applied, clause.body[j].terms[t].n)

\* C20: whenever a meta clause applied to a goal of the parent gives the
\* node, every quoted meta-predicate reference of its body that names a
\* predicate variable the application renamed or bound names, in the applied
\* clause, the predicate that variable became.
C20_QuotesRewritten ==
    \A n \in DOMAIN Tree :
        Tree[n].parent # 0 =>
            LET parent == Tree[Tree[n].parent]
                avoid == AvoidingTerms(Tree, Tree[n].parent)
            IN  \A ci \in DOMAIN meta_clauses, gi \in DOMAIN parent.values :
                    LET applied == ApplyClauseToGoal(
                            parent.values, avoid, meta_clauses[ci], gi,
                            parent.parent = 0)
                    IN  (applied.ok
                         /\ applied.applied_clause = Tree[n].applied_clause
                         /\ applied.values = Tree[n].values) =>
                            QuotesRewritten(meta_clauses[ci],
                                            Tree[n].applied_clause)

(***************************************************************************)
(* check_if_predicates_unify and the levels it is called at (SpecSLD).     *)
(***************************************************************************)
\* the predicates of the heads of the meta clauses and of the goals of the
\* tree
HeadPredicates == {meta_clauses[i].head.predicate : i \in DOMAIN meta_clauses}
GoalPredicates ==
    UNION {{Tree[n].values[i].predicate : i \in DOMAIN Tree[n].values} :
           n \in DOMAIN Tree}

\* the statement of when predicate p unifies with goal g
UnifiesAsStated(p, g, allow) ==
    \/ p = g
    \/ /\ p # g
       /\ p.arity = g.arity
       /\ IsVariablePredicate(p)
       /\ (allow \/ IsVariablePredicate(g))

\* node k is what clause resolving goal i of node p would give, were it
\* allowed to unify with a constant predicate
ResolvedBy(k, p, clause, i) ==
    LET applied == ApplyClauseToGoal(Tree[p].values, AvoidingTerms(Tree, p),
                                     clause, i, TRUE)
    IN  /\ applied.ok
        /\ Tree[k] = SLDNode(applied.values, applied.applied_clause, p)

\* C21: check_if_predicates_unify holds exactly as stated, for the head of
\* every meta clause and the predicate of every goal of the tree; and no
\* node whose parent is below the root comes from a meta clause with a
\* variable head resolving a goal with a constant predicate.
C21_ConstantOnlyAtRoot ==
    /\ \A p \in HeadPredicates \cup GoalPredicates, g \in GoalPredicates,
          allow \in BOOLEAN :
           CheckIfPredicatesUnify(p, g, allow) <=> UnifiesAsStated(p, g, allow)
    /\ \A k \in DOMAIN Tree :
           Depth(Tree, k) >= 2 =>
               \A ci \in DOMAIN meta_clauses,
                  gi \in DOMAIN Tree[Tree[k].parent].values :
                   (/\ IsVariablePredicate(meta_clauses[ci].head.predicate)
                    /\ ~IsVariablePredicate(
                            Tree[Tree[k].parent].values[gi].predicate))
                       => ~ResolvedBy(k, Tree[k].parent, meta_clauses[ci], gi)

\* the generator is exhausted; the root goal has a constant predicate and
\* was resolved by a clause with a variable head; a node one level below,
\* itself expanded, has a goal with a constant predicate of the arity of
\* that head, whose terms unify with it
C21_Witness ==
    /\ pc = "done"
    /\ ~IsVariablePredicate(Tree[1].values[1].predicate)
    /\ \E p \in DOMAIN Tree, ci \in DOMAIN meta_clauses :
           /\ Tree[p].parent = 1
           /\ IsVariablePredicate(meta_clauses[ci].head.predicate)
           /\ ResolvedBy(p, 1, meta_clauses[ci], 1)
           /\ Children(p) # <<>>
           /\ \E gi \in DOMAIN Tree[p].values :
                  /\ ~IsVariablePredicate(Tree[p].values[gi].predicate)
                  /\ Unifies(meta_clauses[ci], Tree[p].values[gi], TRUE)

(***************************************************************************)
(* apply_higher_order_program: the order of the nodes (SpecSLD).           *)
(***************************************************************************)
\* the nodes of the queue that stand at depth d
QueuedAt(d) == {i \in DOMAIN sld.queue : Depth(Tree, sld.queue[i]) = d}

\* C22: the nodes are yielded once each, in the order they are added to the
\* tree, and none at depth d + 1 before one at depth d; the queue holds the
\* nodes yielded last, in that order, the node yielded last at its end; the
\* node being expanded at a level stands at the depth of that level, has
\* left the queue, and the nodes of its depth still queued are the ones
\* left to expand at this level; when the generator is exhausted only the
\* nodes of the last level are queued.
C22_BreadthFirst ==
    /\ yielded = [i \in 1..(Len(Tree) - 1) |-> i + 1]
    /\ \A i, j \in DOMAIN Tree : i < j => Depth(Tree, i) <= Depth(Tree, j)
    /\ Len(sld.queue) <= Len(yielded)
    /\ sld.queue = SubSeq(yielded, Len(yielded) - Len(sld.queue) + 1,
                          Len(yielded))
    /\ sld.phase = "first" => sld.queue = yielded
    /\ (sld.phase = "level" /\ sld.cur # 0) =>
           /\ Depth(Tree, sld.cur) = sld.level
           /\ Tree[Last(yielded)].parent = sld.cur
           /\ sld.cur \notin Range(sld.queue)
           /\ QueuedAt(sld.level) = 1..(sld.left - 1)
           /\ \A i \in DOMAIN sld.queue :
                  Depth(Tree, sld.queue[i]) \in {sld.level, sld.level + 1}
    /\ pc = "done" =>
           Range(sld.queue)
               = {n \in DOMAIN Tree : Depth(Tree, n) = LevelsExpanded}

\* the second of two nodes of depth 1 is being expanded after the first one
\* gave children: the queue holds nodes of depth 2 only
C22_Witness ==
    /\ sld.phase = "level"
    /\ sld.cur = 3
    /\ Depth(Tree, 3) = 1
    /\ \E k \in DOMAIN Tree : Tree[k].parent = 2
    /\ sld.left = 1
    /\ Len(sld.queue) >= 2
    /\ \A i \in DOMAIN sld.queue : Depth(Tree, sld.queue[i]) = 2

(***************************************************************************)
(* MetaProgram.head_predicates (SpecMeta).                                 *)
(***************************************************************************)
\* C23: the head_predicates of a constructed MetaProgram are exactly the
\* variable predicates that are the head of some meta clause and the
\* predicate of no logical body literal of any meta clause.
C23_HeadPredicates ==
    pc # "meta" =>
        meta_program.head_predicates =
            {p \in HeadPredicates :
                /\ IsVariablePredicate(p)
                /\ p \notin BodyVariablePredicates(meta_clauses)}

\* C23, amended: the head_predicates are exactly the variable predicates
\* that are the head of some meta clause whose own body has no logical
\* literal of that predicate; the bodies of the other clauses do not count.
C23_HeadPredicatesOwnBody ==
    pc # "meta" =>
        meta_program.head_predicates =
            {p \in HeadPredicates :
                /\ IsVariablePredicate(p)
                /\ \E i \in DOMAIN meta_clauses :
                       /\ meta_clauses[i].head.predicate = p
                       /\ p \notin BodyVariablePredicates(<<meta_clauses[i]>>)}

\* a MetaProgram was built from two clauses: the variable head of one is in
\* its own body and is not collected, the variable head of the other is in
\* the body of the first only and is collected
C23_Witness ==
    /\ pc # "meta"
    /\ \E i, j \in DOMAIN meta_clauses :
           /\ IsVariablePredicate(meta_clauses[i].head.predicate)
           /\ meta_clauses[i].head.predicate
                  \in BodyVariablePredicates(<<meta_clauses[i]>>)
           /\ meta_clauses[i].head.predicate \notin meta_program.head_predicates
           /\ meta_clauses[j].head.predicate
                  \in BodyVariablePredicates(<<meta_clauses[i]>>)
           /\ meta_clauses[j].head.predicate \in meta_program.head_predicates

(***************************************************************************)
(* first_order_programs: the invented names (SpecMeta).                    *)
(***************************************************************************)
\* the names predicate p is bound to by the programs yielded so far
ValuesOf(p) == {programs[i].substitution[p] : i \in DOMAIN programs}

\* a name that is none of the names to avoid nor of a logic predicate
Invented(name) ==
    /\ name \notin avoid_predicates
    /\ name \notin PredicateNames(logic_predicates)

\* marked trainable, by the exact predicate or by its name, by the caller
\* or by a learn literal of the meta clauses
MarkedTrainable(p) ==
    \/ p \in trainable_predicates.preds
    \/ p.name \in trainable_predicates.names
    \/ \E i \in DOMAIN meta_clauses :
           \E j \in DOMAIN meta_clauses[i].body :
               /\ meta_clauses[i].body[j].predicate.name
                      = LEARN_BUILTIN_PREDICATE
               /\ meta_clauses[i].body[j].terms[1].n = p.name
               /\ meta_clauses[i].body[j].terms[1].a \in {-1, p.arity}

HeadNames == UNION {ValuesOf(p) : p \in meta_program.head_predicates}

\* C24: in the programs first_order_programs yields, every head predicate
\* is bound to one invented name, its own; a body predicate not marked
\* trainable is bound only to logic predicates of its arity and to the
\* names invented for the heads; once all programs are yielded, a body
\* predicate marked trainable has exactly one invented name of its own
\* among its values, so that one name was drawn for each head predicate
\* and for each trainable body predicate and for nothing else.
C24_InventedNames ==
    programs # <<>> =>
        /\ \A p \in meta_program.head_predicates :
               /\ Cardinality(ValuesOf(p)) = 1
               /\ \A name \in ValuesOf(p) : Invented(name)
               /\ \A q \in meta_program.head_predicates :
                      q # p => ValuesOf(q) \cap ValuesOf(p) = {}
        /\ \A b \in meta_program.body_predicates :
               LET own == {name \in ValuesOf(b) :
                              Invented(name) /\ name \notin HeadNames}
               IN  /\ ~MarkedTrainable(b) => own = {}
                   /\ ValuesOf(b) \ own \subseteq
                          HeadNames \cup
                          {logic_predicates[i].name : i \in
                              {k \in DOMAIN logic_predicates :
                                  logic_predicates[k].arity = b.arity}}
                   /\ (MarkedTrainable(b) /\ pc = "done") =>
                          /\ Cardinality(own) = 1
                          /\ \A c \in meta_program.body_predicates :
                                 c # b => own \cap ValuesOf(c) = {}

\* all the programs were yielded for a meta program with a head predicate,
\* a trainable body predicate and a body predicate that is not trainable
C24_Witness ==
    /\ pc = "done"
    /\ programs # <<>>
    /\ meta_program.head_predicates # {}
    /\ \E b, c \in meta_program.body_predicates :
           /\ MarkedTrainable(b)
           /\ ~MarkedTrainable(c)
           /\ HeadNames \cap ValuesOf(c) # {}

(***************************************************************************)
(* _build_false_leaf_theory (Spec).                                        *)
(***************************************************************************)
\* th is base, then one clause with the head of parent and the body of
\* parent followed by the body of the first clause of program, then the
\* other clauses of program
AppendedTo(th, base, parent, program) ==
    LET new_clause == th[Len(base) + 1]
        first_clause == program[1]
    IN  /\ Len(th) = Len(base) + Len(program)
        /\ \A j \in DOMAIN base : th[j] = base[j]
        /\ new_clause.kind = "horn"
        /\ new_clause.head = parent.head
        /\ Len(new_clause.body) = Len(parent.body) + Len(first_clause.body)
        /\ \A j \in DOMAIN parent.body : new_clause.body[j] = parent.body[j]
        /\ \A j \in DOMAIN first_clause.body :
               new_clause.body[Len(parent.body) + j] = first_clause.body[j]
        /\ \A j \in 2..Len(program) : th[Len(base) + j] = program[j]

\* C25: at a false leaf, every candidate theory given to the evaluator comes
\* from a program whose first clause has neither the false literal nor the
\* placeholder predicate in its body, and is the current theory, then the
\* clause of the revision point with the derived body after its own, then
\* the other clauses of the program; the theory and the clause of the
\* revision point are as they were when the operation was called.
C25_FalseLeafAppends ==
    revision_leaf.kind = "false_leaf" =>
        /\ \A i \in DOMAIN evaluated :
               /\ ~HasFalseLiteral(evaluated[i].program[1])
               /\ ~HasPlaceholder(evaluated[i].program[1])
               /\ AppendedTo(evaluated[i].theory, CalledWith.theory,
                             CalledWith.leaf.parent_element,
                             evaluated[i].program)
        /\ revision_leaf = CalledWith.leaf
        /\ theory = CalledWith.theory

\* a candidate of a false leaf was evaluated whose program has a second
\* clause and a first clause with a body
C25_Witness ==
    /\ revision_leaf.kind = "false_leaf"
    /\ revision_leaf.parent_element.body # <<>>
    /\ \E i \in DOMAIN evaluated :
           /\ Len(evaluated[i].program) >= 2
           /\ evaluated[i].program[1].body # <<>>
           /\ revision_leaf.parent_element \in Range(evaluated[i].theory)

(***************************************************************************)
(* _build_literal_leaf_theory (Spec).                                      *)
(***************************************************************************)
\* th is base with the first occurrence of clause replaced, at the end, by
\* the clause without the first occurrence of literal and with the body of
\* the first clause of program after the literals that remain, followed by
\* the other clauses of program
LiteralReplaced(th, base, clause, literal, program) ==
    th = AddClauses(
             AddClauses(RemoveFirst(base, clause),
                        <<HornClause(clause.head,
                                     RemoveFirst(clause.body, literal)
                                     \o program[1].body)>>),
             Tail(program))

\* C26: at a literal leaf, once a program is yielded whose first clause has
\* neither the false literal nor the placeholder predicate in its body, no
\* error has left the builder and, unless the evaluator raised, the theory
\* given to the evaluator has the clause of the revision point replaced by
\* the clause with the revised literal removed once and the derived body in
\* its place, the other literals in their order.
C26_LiteralReplaced ==
    (/\ revision_leaf.kind = "literal_leaf"
     /\ programs # <<>>
     /\ IsCandidate(Last(programs).program)
     /\ ~HasFalseLiteral(Last(programs).program[1])
     /\ ~HasPlaceholder(Last(programs).program[1])) =>
        \/ pc = "raised" /\ result = Exception("KnowledgeException")
        \/ /\ pc # "raised"
           /\ evaluated # <<>>
           /\ Last(evaluated).program = Last(programs).program
           /\ LiteralReplaced(Last(evaluated).theory, theory,
                              revision_leaf.parent_element,
                              Lit(target_atom.predicate, target_atom.terms,
                                  FALSE),
                              Last(programs).program)

(***************************************************************************)
(* apply_clause_to_node: distinct variables keep distinct names (SpecSLD). *)
(***************************************************************************)
\* v is bound by the unification of the head of clause with the goal
BoundByHead(clause, v) ==
    \/ v \in Range(clause.head.terms)
    \/ v = GetTermFromString(clause.head.predicate.name)

\* what the unification of the head of clause with goal binds v to
HeadImage(clause, goal, v) ==
    IF v = GetTermFromString(clause.head.predicate.name)
    THEN GetTermFromString(goal.predicate.name)
    ELSE goal.terms[CHOOSE j \in DOMAIN clause.head.terms :
                        clause.head.terms[j] = v]

\* two distinct variables of the body of clause stand as distinct names in
\* applied, unless the goal binds both to the same term
InjectivelyRenamed(clause, applied, goal) ==
    \A o1, o2 \in Occurrences(clause.body) :
        LET v1 == NameAt(clause.body, o1)
            v2 == NameAt(clause.body, o2)
        IN  (/\ IsVariable(v1)
             /\ IsVariable(v2)
             /\ v1 # v2
             /\ ~(/\ BoundByHead(clause, v1)
                  /\ BoundByHead(clause, v2)
                  /\ HeadImage(clause, goal, v1) = HeadImage(clause, goal, v2)))
                => NameAt(applied.body, o1) # NameAt(applied.body, o2)

\* C27: whenever a meta clause applied to a goal of the parent gives the
\* node, two distinct variables of the body of the meta clause, predicate
\* variables or terms, stand as two distinct names in the applied clause,
\* whether renamed, bound to distinct terms of the goal or left unchanged.
C27_Injective ==
    \A n \in DOMAIN Tree :
        Tree[n].parent # 0 =>
            LET parent == Tree[Tree[n].parent]
                avoid == AvoidingTerms(Tree, Tree[n].parent)
            IN  \A ci \in DOMAIN meta_clauses, gi \in DOMAIN parent.values :
                    LET applied == ApplyClauseToGoal(
                            parent.values, avoid, meta_clauses[ci], gi,
                            parent.parent = 0)
                    IN  (applied.ok
                         /\ applied.applied_clause = Tree[n].applied_clause
                         /\ applied.values = Tree[n].values) =>
                            InjectivelyRenamed(meta_clauses[ci],
                                               Tree[n].applied_clause,
                                               parent.values[gi])

(***************************************************************************)
(* Properties of the search with a minimum threshold, in revise_node and   *)
(* in build_program_from_target (SpecOperator).                            *)
(***************************************************************************)
\* revise_node or build_program_from_target is running or has just returned
InSearch == pc \in {"nodes", "programs", "done",
                    "build_nodes", "build_programs", "append"}

\* the search is over: revise_node returned, or build_program_from_target
\* returned to perform_operation_for_example
SearchReturned == pc \in {"done", "append"}

\* what the search returned: a theory in revise_node, a program in
\* build_program_from_target, NoItem for None
Returned == IF pc = "done" THEN result ELSE best_theory

\* the i-th evaluated candidate as the search would return it
AsReturned(i) ==
    IF pc = "done" THEN Theory(evaluated[i].theory)
    ELSE Program(evaluated[i].theory)

\* C28: with a minimum threshold, best_evaluation stays the evaluation of
\* the current theory during the whole search, a candidate is returned only
\* if its improvement on that evaluation is strictly greater than the
\* threshold (it is then the last one evaluated), and when no evaluated
\* candidate exceeds the threshold the search returns None, whether or not
\* some candidate improves on the current evaluation.
C28_ThresholdSearch ==
    (minimum_threshold.set /\ InSearch) =>
        /\ best_evaluation = current_evaluation
        /\ (SearchReturned /\ Returned # NoItem) =>
               /\ evaluated # <<>>
               /\ Improvement(Len(evaluated)) > minimum_threshold.value
               /\ Returned = AsReturned(Len(evaluated))
        /\ (SearchReturned
            /\ \A i \in DOMAIN evaluated :
                   Improvement(i) <= minimum_threshold.value) =>
               Returned = NoItem

\* build_program_from_target returned None although the second candidate
\* it evaluated improves on the current evaluation, by exactly the threshold
C28_Witness ==
    /\ minimum_threshold.set
    /\ pc = "append"
    /\ best_theory = NoItem
    /\ Len(evaluated) >= 2
    /\ Improvement(2) > 0
    /\ Improvement(2) = minimum_threshold.value

(***************************************************************************)
(* Properties of perform_operation_on_examples (SpecExamples).             *)
(***************************************************************************)
\* perform_operation_for_example returns to the loop of line 885
ForExampleReturns == pc \in {"build_programs", "append"} /\ pc' = "examples"

\* it returned True: the caller ran lines 904-906
ReturnedTrue == ForExampleReturns /\ inferred_examples' = NoItem

\* C29: when perform_operation_for_example does not return True (no
\* program, or an exception caught at any step, the steps after add_clauses
\* included), the theory it was given is as it was before the call.
C29_UnchangedUnlessTrue ==
    [][(ForExampleReturns /\ ~ReturnedTrue) => theory' = theory]_vars

\* the loop tests an example for coverage (lines 891-892)
TestsExample ==
    /\ pc = "examples"
    /\ example <= Len(targets)
    /\ inferred_examples' # NoItem

\* C30: a search is started only for a positive example that the
\* inferences do not cover, and whenever an example is tested for coverage
\* or revised, the inferences are those of the theory as it is then, and the
\* logic predicates and the names to avoid are those of that theory.
C30_RecomputedBeforeNext ==
    [][TestsExample =>
          /\ inferred_examples'.theory = theory
          /\ logic_predicates = UpdatedLogicPredicates(theory)
          /\ avoid_predicates = UpdatedAvoidPredicates(theory)
          /\ pc' = "build_nodes" =>
                 /\ targets[example].positive
                 /\ example \notin inferred_examples'.covered]_vars

====
